---- MODULE Spec2Model ----
(***************************************************************************)
(* A model of the fantastic-pool contract (PoolConfig / Pool, PairOracle,  *)
(* Epoch) together with the ownable package it relies on.  Every entry     *)
(* point of the contract is one action; an entry point that returns an     *)
(* error or aborts leaves the store as it was (the host reverts it).       *)
(* Uint128 values are natural numbers; products that exceed the range of   *)
(* 32-bit integers are computed on base-1000 digit sequences.  The         *)
(* fantastic-stake contract (Stake, PoolInfo) is the record stake, with     *)
(* one action for each of its entry points.                                 *)
(***************************************************************************)
EXTENDS Integers, Sequences, FiniteSets, TLC

\* ------------------------------------------------------------ bounds
StartTime == 1000
MaxTime == 2800
MaxHeight == 4
MaxPending == 1000
PoolMaxHeight == 3

\* ------------------------------------------------- program constants
PRECISION == 1000000
INIT_COOLDOWN == 600
INIT_STEP == 2500
INIT_PRICE_BAND == 5000
INIT_MINTING_FEE == 3000
INIT_REDEMPTION_FEE == 5000
DEFAULT_TWAP_PERIOD == 600
ACC_REWARD_PRECISION == 1000000
BOOST_MULTIPLIER_PRECISION == 1000000

\* ------------------------------------------- Uint128 arithmetic helpers
RECURSIVE ToBig(_)
ToBig(n) == IF n = 0 THEN << >> ELSE << n % 1000 >> \o ToBig(n \div 1000)

RECURSIVE FromBig(_)
FromBig(d) == IF d = << >> THEN 0 ELSE d[1] + 1000 * FromBig(Tail(d))

RECURSIVE Trim(_)
Trim(d) ==
    IF d # << >> /\ d[Len(d)] = 0 THEN Trim(SubSeq(d, 1, Len(d) - 1)) ELSE d

RECURSIVE BigMulCarry(_, _, _)
BigMulCarry(d, k, c) ==
    IF d = << >> THEN ToBig(c)
    ELSE LET t == d[1] * k + c
         IN  << t % 1000 >> \o BigMulCarry(Tail(d), k, t \div 1000)

\* d * k, for a digit sequence d and a number k
BigMul(d, k) == Trim(BigMulCarry(d, k, 0))

RECURSIVE BigDivRem(_, _, _)
BigDivRem(d, k, r) ==
    IF d = << >> THEN << >>
    ELSE LET t == r * 1000 + d[Len(d)]
         IN  BigDivRem(SubSeq(d, 1, Len(d) - 1), k, t % k) \o << t \div k >>

\* floor(d / k), for a digit sequence d and a number k > 0
BigDiv(d, k) == Trim(BigDivRem(d, k, 0))

RECURSIVE BigLess(_, _)
BigLess(a, b) ==
    IF Len(a) # Len(b) THEN Len(a) < Len(b)
    ELSE IF a = << >> THEN FALSE
    ELSE IF a[Len(a)] # b[Len(b)] THEN a[Len(a)] < b[Len(b)]
    ELSE BigLess(SubSeq(a, 1, Len(a) - 1), SubSeq(b, 1, Len(b) - 1))

\* Uint128::multiply_ratio: floor(a * num / den) at full precision
multiply_ratio(a, num, den) == FromBig(BigDiv(BigMul(ToBig(a), num), den))

\* -------------------------------------------------------------- types
Owner == "owner"
Accounts == {"alice", "bob"}
Senders == Accounts \cup {Owner}
CollateralDenom == "uluna"
SynthToken == "synth"
ShareToken == "share"
Pair == "pair"
NoAddr == ""

None == [is_some |-> FALSE, val |-> 0]
Some(v) == [is_some |-> TRUE, val |-> v]

VARIABLES
    now,            \* env.block.time.seconds()
    height,         \* env.block.height
    pool,           \* Item "pool": PoolConfig
    user,           \* Map "user": account -> UserInfo (absent = default)
    synth_oracle,   \* Item "synth_oracle": PairOracleState
    share_oracle,   \* Item "share_oracle": PairOracleState
    epoch,          \* Item "EPOCH": State
    ownable,        \* Item "_ownable": State
    cum,            \* the pair's price0/price1_cumulative_last
    assets,         \* the pair's two reserves
    synth_supply,   \* the synth token's total_supply
    circulating,    \* synth held by accounts (not by the contract)
    bank,           \* the contract's balance of collateral_denom
    replies,        \* instantiate's sub-message replies still to come
    last,           \* the last call: entry point, sender, result, messages
    refreshed_at,   \* history: time of the last successful refresh, or -1
    stake           \* the fantastic-stake contract: its store and its token

store == << pool, user, synth_oracle, share_oracle, epoch, ownable >>
\* what lies outside the pool contract: the block, the pair and the
\* staking contract
chain == << now, height, cum, assets, stake >>
vars == << now, height, pool, user, synth_oracle, share_oracle, epoch,
           ownable, cum, assets, synth_supply, circulating, bank, replies,
           last, refreshed_at, stake >>

\* ------------------------------------------------------ initial state
PoolConfig_init(collateral_denom) ==
    [ collateral_denom |-> collateral_denom,
      synth |-> NoAddr,
      share |-> NoAddr,
      collateral_ratio |-> PRECISION,
      min_collateral_ratio |-> PRECISION,
      last_refresh_collateral_ratio |-> 0,
      refresh_collateral_ratio_cooldown |-> INIT_COOLDOWN,
      collateral_ratio_step |-> INIT_STEP,
      price_band |-> INIT_PRICE_BAND,
      minting_fee |-> INIT_MINTING_FEE,
      redemption_fee |-> INIT_REDEMPTION_FEE,
      total_fee |-> 0,
      total_unclaimed_synth |-> 0,
      total_unclaimed_collateral |-> 0,
      total_unclaimed_share |-> 0,
      mint_paused |-> FALSE,
      redeem_paused |-> FALSE ]

UserInfo_default ==
    [ last_action_block |-> 0,
      synth_balance |-> 0,
      share_balance |-> 0,
      collateral_balance |-> 0 ]

PairOracleState_default ==
    [ pair_addr |-> NoAddr,
      base_index |-> 0,
      price_cumulative_last |-> 0,
      twap |-> None,
      last_update |-> 0,
      twap_period |-> DEFAULT_TWAP_PERIOD ]

EpochState_default ==
    [ epoch_duration |-> 0,
      pair_addr |-> NoAddr,
      base_index |-> 0,
      price_cumulative_last |-> 0,
      start_timestamp |-> 0,
      base_supply |-> 0,
      max_supply |-> None,
      ceil_price |-> None,
      max_expansion_rate |-> None ]

Ownable_initialize(owner) == [ owner |-> owner, pending_owner |-> NoAddr ]

\* ------------------------------------------- fantastic-stake: its state
WantToken == "want"
RewardToken == "reward"
PositionToken == "position"
BoostToken == "boost"

\* Stake::initialize
PoolInfo_initialize(t, want_token, reward_token) ==
    [ acc_reward_per_share |-> 0,
      want_token |-> want_token,
      reward_token |-> reward_token,
      position_token |-> NoAddr,
      reward_per_second |-> 0,
      last_update_timestamp |-> t,
      boost_tokens |-> << >>,
      total_staked |-> 0 ]

StakeUserInfo_default ==
    [ amount |-> 0, reward_debt |-> 0, boost_token |-> << >> ]

\* instantiate of the staking contract, called by Owner at StartTime: the
\* position token is being instantiated, its reply is still to come, and
\* nobody holds position tokens
Stake_instantiate ==
    [ pool |-> PoolInfo_initialize(StartTime, WantToken, RewardToken),
      user |-> [a \in Accounts |-> StakeUserInfo_default],
      owner |-> Owner,
      replies |-> << 1 >>,
      position |-> [a \in Accounts |-> 0] ]

NoCall == [ op |-> "instantiate", sender |-> Owner, args |-> << >>,
            result |-> "ok", msgs |-> << >>, sub |-> << >> ]

\* what instantiate's caller may attach: each coin of collateral_denom
\* becomes an initial synth balance of the caller
InitialFunds == {1000}

\* instantiate, called by Owner: the two token
\* instantiations are queued and their replies are still to be delivered
Init ==
    /\ now = StartTime
    /\ height = 1
    /\ pool = PoolConfig_init(CollateralDenom)
    /\ user = [a \in Accounts |-> UserInfo_default]
    /\ synth_oracle = PairOracleState_default
    /\ share_oracle = PairOracleState_default
    /\ epoch = EpochState_default
    /\ ownable = Ownable_initialize(Owner)
    /\ cum = << 0, 0 >>
    /\ assets = << 2000, 10 >>
    /\ synth_supply \in InitialFunds
    /\ circulating = synth_supply
    /\ bank = synth_supply
    /\ replies = << 1, 2 >>
    /\ last = NoCall
    /\ refreshed_at = -1
    /\ stake = Stake_instantiate


\* ------------------------------------------------- PoolConfig (pool.rs)
\* Uint128 holds values below 2^128; its +, - and * are checked, so a
\* product at or above 2^128 aborts the call, as does precision - x when
\* x > precision and a division by zero
U128_LIMIT == << 456, 211, 768, 431, 607, 374, 463, 463, 938, 920, 366, 282,
                 340 >>

FitsU128(d) == BigLess(d, U128_LIMIT)

\* calc_mint on an amount given as a digit sequence
PoolConfig_calc_mint(p, amt) ==
    LET sub_ok == p.collateral_ratio <= PRECISION /\ p.minting_fee <= PRECISION
        b1 == BigMul(amt, PRECISION - p.collateral_ratio)
        s1 == BigMul(amt, PRECISION - p.minting_fee)
        f1 == BigMul(amt, p.collateral_ratio)
        f2 == BigMul(f1, p.minting_fee)
        ok == /\ sub_ok
              /\ FitsU128(b1) /\ FitsU128(s1) /\ FitsU128(f1) /\ FitsU128(f2)
    IN  [ ok |-> ok,
          buy_share_value |-> IF ok THEN BigDiv(b1, PRECISION) ELSE << >>,
          synth_out |-> IF ok THEN BigDiv(s1, PRECISION) ELSE << >>,
          fee |-> IF ok THEN BigDiv(BigDiv(f2, PRECISION), PRECISION)
                  ELSE << >> ]

calc_mint(p, collateral_amount) ==
    LET r == PoolConfig_calc_mint(p, ToBig(collateral_amount))
    IN  [ ok |-> r.ok,
          buy_share_value |-> FromBig(r.buy_share_value),
          synth_out |-> FromBig(r.synth_out),
          fee |-> FromBig(r.fee) ]

\* calc_redeem on an amount given as a digit sequence
PoolConfig_calc_redeem(p, amt, share_price) ==
    LET sub_ok == /\ p.redemption_fee <= PRECISION
                  /\ p.collateral_ratio <= PRECISION
        c1 == BigMul(amt, p.collateral_ratio)
        c2 == BigMul(c1, PRECISION - p.redemption_fee)
        f1 == BigMul(amt, p.redemption_fee)
        s1 == BigMul(amt, PRECISION - p.redemption_fee)
        s2 == BigMul(s1, PRECISION - p.collateral_ratio)
        ok == /\ sub_ok
              /\ FitsU128(c1) /\ FitsU128(c2) /\ FitsU128(f1)
              /\ FitsU128(s1) /\ FitsU128(s2)
              /\ share_price > 0
    IN  [ ok |-> ok,
          collateral_out |-> IF ok THEN BigDiv(BigDiv(c2, PRECISION), PRECISION)
                             ELSE << >>,
          fee |-> IF ok THEN BigDiv(f1, PRECISION) ELSE << >>,
          share_out |-> IF ok THEN BigDiv(BigDiv(s2, share_price), PRECISION)
                        ELSE << >> ]

calc_redeem(p, synth_amount, share_price) ==
    LET r == PoolConfig_calc_redeem(p, ToBig(synth_amount), share_price)
    IN  [ ok |-> r.ok,
          collateral_out |-> FromBig(r.collateral_out),
          fee |-> FromBig(r.fee),
          share_out |-> FromBig(r.share_out) ]

PoolConfig_mint(p, u, block_height, collateral_amount) ==
    LET result == calc_mint(p, collateral_amount)
    IN  [ result |-> result,
          pool |-> [p EXCEPT
              !.total_unclaimed_synth = @ + result.synth_out,
              !.total_fee = @ + result.fee],
          user |-> [u EXCEPT
              !.last_action_block = block_height,
              !.synth_balance = @ + result.synth_out] ]

\* a redeem that also books the redeemed synth back as pending synth
PoolConfig_redeem_adds_synth(p, u, block_height, synth_amount, share_price) ==
    LET result == calc_redeem(p, synth_amount, share_price)
    IN  [ result |-> result,
          pool |-> [p EXCEPT
              !.total_unclaimed_collateral = @ + result.collateral_out,
              !.total_unclaimed_share = @ + result.share_out,
              !.total_unclaimed_synth = @ + synth_amount,
              !.total_fee = @ + result.fee],
          user |-> [u EXCEPT
              !.last_action_block = block_height,
              !.share_balance = @ + result.share_out,
              !.synth_balance = @ + synth_amount,
              !.collateral_balance = @ + result.collateral_out] ]

PoolConfig_redeem(p, u, block_height, synth_amount, share_price) ==
    LET result == calc_redeem(p, synth_amount, share_price)
    IN  [ result |-> result,
          pool |-> [p EXCEPT
              !.total_unclaimed_collateral = @ + result.collateral_out,
              !.total_unclaimed_share = @ + result.share_out,
              !.total_fee = @ + result.fee],
          user |-> [u EXCEPT
              !.last_action_block = block_height,
              !.share_balance = @ + result.share_out,
              !.collateral_balance = @ + result.collateral_out] ]

\* PoolConfig_collect without the decrement of total_unclaimed_share
PoolConfig_collect_keeps_share_total(p, u) ==
    [ ok |-> /\ p.total_unclaimed_collateral >= u.collateral_balance
             /\ p.total_unclaimed_synth >= u.synth_balance,
      collateral_amount |-> u.collateral_balance,
      synth_amount |-> u.synth_balance,
      share_amount |-> u.share_balance,
      pool |-> [p EXCEPT
          !.total_unclaimed_collateral = @ - u.collateral_balance,
          !.total_unclaimed_synth = @ - u.synth_balance],
      user |-> [u EXCEPT
          !.collateral_balance = 0,
          !.share_balance = 0,
          !.synth_balance = 0] ]

\* the three checked subtractions abort when an accumulator is too small
PoolConfig_collect(p, u) ==
    [ ok |-> /\ p.total_unclaimed_collateral >= u.collateral_balance
             /\ p.total_unclaimed_share >= u.share_balance
             /\ p.total_unclaimed_synth >= u.synth_balance,
      collateral_amount |-> u.collateral_balance,
      synth_amount |-> u.synth_balance,
      share_amount |-> u.share_balance,
      pool |-> [p EXCEPT
          !.total_unclaimed_collateral = @ - u.collateral_balance,
          !.total_unclaimed_share = @ - u.share_balance,
          !.total_unclaimed_synth = @ - u.synth_balance],
      user |-> [u EXCEPT
          !.collateral_balance = 0,
          !.share_balance = 0,
          !.synth_balance = 0] ]

clamp(x, lo, hi) == IF x < lo THEN lo ELSE IF x > hi THEN hi ELSE x

\* aborts on ratio - step below zero, on precision - band below zero and
\* on a clamp whose lower end exceeds its upper end
PoolConfig_refresh_collateral_ratio(p, synth_twap) ==
    LET down == synth_twap > PRECISION + p.price_band
        up == ~down /\ p.price_band <= PRECISION
                    /\ synth_twap < PRECISION - p.price_band
        ok == /\ down => p.collateral_ratio >= p.collateral_ratio_step
              /\ ~down => p.price_band <= PRECISION
              /\ p.min_collateral_ratio <= PRECISION
        ratio == IF down THEN p.collateral_ratio - p.collateral_ratio_step
                 ELSE IF up THEN p.collateral_ratio + p.collateral_ratio_step
                 ELSE p.collateral_ratio
    IN  [ ok |-> ok,
          pool |-> [p EXCEPT !.collateral_ratio =
                        clamp(ratio, p.min_collateral_ratio, PRECISION)] ]

\* --------------------------------------------- external pair (helpers.rs)
\* a smart query to anything but the pair contract fails
query_cumulative_prices(pair_addr, base_index) ==
    [ ok |-> pair_addr = Pair,
      val |-> IF base_index = 0 THEN cum[1] ELSE cum[2] ]

\* ------------------------------------------------ PairOracle (oracle.rs)
\* quote_index is base_index + 1 % 2, which Rust reads as base_index + (1 % 2)
get_pair_reserve(pair_addr, base_index) ==
    LET quote_index == base_index + (1 % 2)
    IN  [ ok |-> /\ pair_addr = Pair
                 /\ base_index < Len(assets)
                 /\ quote_index < Len(assets),
          base_reserve |-> IF base_index < Len(assets)
                           THEN assets[base_index + 1] ELSE 0,
          quote_reserve |-> IF quote_index < Len(assets)
                            THEN assets[quote_index + 1] ELSE 0 ]

get_spot_price(o) ==
    LET r == get_pair_reserve(o.pair_addr, o.base_index)
    IN  IF ~r.ok THEN [ result |-> "Std", val |-> 0 ]
        ELSE IF r.base_reserve = 0 THEN [ result |-> "panic", val |-> 0 ]
        ELSE [ result |-> "ok",
               val |-> multiply_ratio(r.quote_reserve, PRECISION,
                                      r.base_reserve) ]

get_twap(o) ==
    IF ~o.twap.is_some
    THEN [ result |-> "PriceUnavailableOrOutdated", twap |-> 0, last_update |-> 0 ]
    ELSE [ result |-> "ok", twap |-> o.twap.val, last_update |-> o.last_update ]

\* an update that does not move price_cumulative_last
update_twap_keeps_cumulative(o, t) ==
    LET next_update == o.last_update + o.twap_period
        q == query_cumulative_prices(o.pair_addr, o.base_index)
    IN  IF next_update > t
        THEN [ result |-> "TwapPeriodNotElapsed", state |-> o ]
        ELSE IF ~q.ok THEN [ result |-> "Std", state |-> o ]
        ELSE IF q.val < o.price_cumulative_last \/ t - o.last_update = 0
        THEN [ result |-> "panic", state |-> o ]
        ELSE [ result |-> "ok",
               state |-> [o EXCEPT
                   !.twap = Some((q.val - o.price_cumulative_last)
                                     \div (t - o.last_update)),
                   !.last_update = t] ]

update_twap(o, t) ==
    LET next_update == o.last_update + o.twap_period
        q == query_cumulative_prices(o.pair_addr, o.base_index)
    IN  IF next_update > t
        THEN [ result |-> "TwapPeriodNotElapsed", state |-> o ]
        ELSE IF ~q.ok THEN [ result |-> "Std", state |-> o ]
        ELSE IF q.val < o.price_cumulative_last \/ t - o.last_update = 0
        THEN [ result |-> "panic", state |-> o ]
        ELSE [ result |-> "ok",
               state |-> [o EXCEPT
                   !.twap = Some((q.val - o.price_cumulative_last)
                                     \div (t - o.last_update)),
                   !.price_cumulative_last = q.val,
                   !.last_update = t] ]

\* a config that keeps the average it found
PairOracle_config_keeps_twap(o, pair_addr, base_index, twap_period, t) ==
    LET q == query_cumulative_prices(pair_addr, base_index)
    IN  IF base_index > 1 THEN [ result |-> "Std", state |-> o ]
        ELSE IF ~q.ok THEN [ result |-> "Std", state |-> o ]
        ELSE [ result |-> "ok",
               state |-> [o EXCEPT
                   !.pair_addr = pair_addr,
                   !.base_index = base_index,
                   !.last_update = t,
                   !.price_cumulative_last = q.val,
                   !.twap_period = twap_period] ]

\* a config that takes any token index
PairOracle_config_any_index(o, pair_addr, base_index, twap_period, t) ==
    LET q == query_cumulative_prices(pair_addr, base_index)
    IN  IF ~q.ok THEN [ result |-> "Std", state |-> o ]
        ELSE [ result |-> "ok",
               state |-> [o EXCEPT
                   !.pair_addr = pair_addr,
                   !.base_index = base_index,
                   !.last_update = t,
                   !.price_cumulative_last = q.val,
                   !.twap = None,
                   !.twap_period = twap_period] ]

PairOracle_config(o, pair_addr, base_index, twap_period, t) ==
    LET q == query_cumulative_prices(pair_addr, base_index)
    IN  IF base_index > 1 THEN [ result |-> "Std", state |-> o ]
        ELSE IF ~q.ok THEN [ result |-> "Std", state |-> o ]
        ELSE [ result |-> "ok",
               state |-> [o EXCEPT
                   !.pair_addr = pair_addr,
                   !.base_index = base_index,
                   !.last_update = t,
                   !.price_cumulative_last = q.val,
                   !.twap = None,
                   !.twap_period = twap_period] ]


\* ------------------------------------------------------ Epoch (epoch.rs)
\* Unit::luna(v) = v * 10^6, as a digit sequence
luna(v) == IF v = 0 THEN << >> ELSE << 0, 0 >> \o ToBig(v)

SUPPLY_TIERS ==
    << luna(0), luna(500000), luna(1000000), luna(1500000), luna(2000000),
       luna(5000000), luna(10000000), luna(20000000), luna(50000000) >>

EXPANSION_RATES == << 450, 400, 350, 300, 250, 200, 150, 125, 100 >>


\* a position() whose comparison lets a supply on a breakpoint stay below it
tier_position_of_inclusive(digits) ==
    LET hits == { i \in 1..Len(SUPPLY_TIERS) :
                      ~BigLess(SUPPLY_TIERS[i], digits) }
    IN  IF hits = {} THEN Len(SUPPLY_TIERS)
        ELSE (CHOOSE i \in hits : \A j \in hits : i <= j) - 1

\* SUPPLY_TIERS.iter().position(|&x| supply < x), 0-based; Len = none.
\* The supply is a digit sequence here, so that supplies beyond the last
\* tier (5 * 10^13) can be written.
tier_position_of(digits) ==
    LET hits == { i \in 1..Len(SUPPLY_TIERS) :
                      BigLess(digits, SUPPLY_TIERS[i]) }
    IN  IF hits = {} THEN Len(SUPPLY_TIERS)
        ELSE (CHOOSE i \in hits : \A j \in hits : i <= j) - 1

tier_position(supply) == tier_position_of(ToBig(supply))

max2(a, b) == IF a >= b THEN a ELSE b

\* a get_expansion_rate that takes max_expansion_rate as a ceiling
expansion_rate_of_tier_capped(e, tier, twap) ==
    IF ~e.ceil_price.is_some THEN None
    ELSE IF twap <= e.ceil_price.val THEN None
    ELSE IF tier = Len(SUPPLY_TIERS) THEN None
    ELSE IF tier - 1 < 0 \/ tier - 1 >= Len(EXPANSION_RATES) THEN None
    ELSE LET rate == EXPANSION_RATES[(tier - 1) + 1]
         IN  IF e.max_expansion_rate.is_some
             THEN Some(IF rate <= e.max_expansion_rate.val
                       THEN rate ELSE e.max_expansion_rate.val)
             ELSE Some(rate)

\* get_expansion_rate from the tier on
expansion_rate_of_tier(e, tier, twap) ==
    IF ~e.ceil_price.is_some THEN None
    ELSE IF twap <= e.ceil_price.val THEN None
    ELSE IF tier = Len(SUPPLY_TIERS) THEN None
    ELSE IF tier - 1 < 0 \/ tier - 1 >= Len(EXPANSION_RATES) THEN None
    ELSE LET rate == EXPANSION_RATES[(tier - 1) + 1]
         IN  IF e.max_expansion_rate.is_some
             THEN Some(max2(rate, e.max_expansion_rate.val))
             ELSE Some(rate)

get_expansion_rate(e, supply, twap) ==
    expansion_rate_of_tier(e, tier_position(supply), twap)

\* a next whose allowed supply is the expansion alone
Epoch_next_expansion_only(e, token_supply, price_cumulative, t) ==
    IF e.start_timestamp = 0
    THEN [ ok |-> TRUE, twap |-> 0,
           state |-> [e EXCEPT !.start_timestamp = t,
                               !.price_cumulative_last = price_cumulative] ]
    ELSE IF \/ price_cumulative < e.price_cumulative_last
            \/ t <= e.start_timestamp
    THEN [ ok |-> FALSE, twap |-> 0, state |-> e ]
    ELSE LET twap == (price_cumulative - e.price_cumulative_last)
                         \div (t - e.start_timestamp)
             r == get_expansion_rate(e, token_supply, twap)
             rate == IF r.is_some THEN r.val ELSE 0
         IN  [ ok |-> TRUE, twap |-> twap,
               state |-> [e EXCEPT
                   !.start_timestamp = t,
                   !.price_cumulative_last = price_cumulative,
                   !.base_supply = token_supply,
                   !.max_supply = Some(multiply_ratio(token_supply,
                                       rate, PRECISION))] ]

\* a first epoch that records the supply it found
Epoch_next_first_sets_base(e, token_supply, price_cumulative, t) ==
    IF e.start_timestamp = 0
    THEN [ ok |-> TRUE, twap |-> 0,
           state |-> [e EXCEPT !.start_timestamp = t,
                               !.price_cumulative_last = price_cumulative,
                               !.base_supply = token_supply,
                               !.max_supply = Some(token_supply)] ]
    ELSE IF \/ price_cumulative < e.price_cumulative_last
            \/ t <= e.start_timestamp
    THEN [ ok |-> FALSE, twap |-> 0, state |-> e ]
    ELSE LET twap == (price_cumulative - e.price_cumulative_last)
                         \div (t - e.start_timestamp)
             r == get_expansion_rate(e, token_supply, twap)
             rate == IF r.is_some THEN r.val ELSE 0
         IN  [ ok |-> TRUE, twap |-> twap,
               state |-> [e EXCEPT
                   !.start_timestamp = t,
                   !.price_cumulative_last = price_cumulative,
                   !.base_supply = token_supply,
                   !.max_supply = Some(multiply_ratio(token_supply,
                                       rate + PRECISION, PRECISION))] ]

Epoch_next(e, token_supply, price_cumulative, t) ==
    IF e.start_timestamp = 0
    THEN [ ok |-> TRUE, twap |-> 0,
           state |-> [e EXCEPT !.start_timestamp = t,
                               !.price_cumulative_last = price_cumulative] ]
    ELSE IF \/ price_cumulative < e.price_cumulative_last
            \/ t <= e.start_timestamp
    THEN [ ok |-> FALSE, twap |-> 0, state |-> e ]
    ELSE LET twap == (price_cumulative - e.price_cumulative_last)
                         \div (t - e.start_timestamp)
             r == get_expansion_rate(e, token_supply, twap)
             rate == IF r.is_some THEN r.val ELSE 0
         IN  [ ok |-> TRUE, twap |-> twap,
               state |-> [e EXCEPT
                   !.start_timestamp = t,
                   !.price_cumulative_last = price_cumulative,
                   !.base_supply = token_supply,
                   !.max_supply = Some(multiply_ratio(token_supply,
                                       rate + PRECISION, PRECISION))] ]

\* aborts on now - start_timestamp below zero, on max_supply - base_supply
\* below zero and on a ratio whose denominator epoch_duration / 2 is zero
get_allowed_supply(e, t) ==
    IF ~e.max_supply.is_some THEN [ ok |-> TRUE, val |-> None ]
    ELSE IF t < e.start_timestamp THEN [ ok |-> FALSE, val |-> None ]
    ELSE LET elapsed == t - e.start_timestamp
             fully_expaded == e.epoch_duration \div 2
         IN  IF elapsed > fully_expaded
             THEN [ ok |-> TRUE, val |-> Some(e.max_supply.val) ]
             ELSE IF e.max_supply.val < e.base_supply \/ fully_expaded = 0
             THEN [ ok |-> FALSE, val |-> None ]
             ELSE [ ok |-> TRUE,
                    val |-> Some(e.base_supply
                        + multiply_ratio(e.max_supply.val - e.base_supply,
                                         elapsed, fully_expaded)) ]

\* a TokenInfo query to anything but a token contract fails
get_token_supply(token) ==
    [ ok |-> token = SynthToken, total_supply |-> synth_supply ]

\* a cap check that lets every amount through
assert_mint_amount_unchecked(e, p, mint_amount, t) ==
    LET s == get_token_supply(p.synth)
        allowed == get_allowed_supply(e, t)
    IN  IF ~s.ok THEN "Std"
        ELSE IF ~allowed.ok THEN "panic"
        ELSE "ok"

assert_mint_amount(e, p, mint_amount, t) ==
    LET s == get_token_supply(p.synth)
        allowed == get_allowed_supply(e, t)
    IN  IF ~s.ok THEN "Std"
        ELSE IF ~allowed.ok THEN "panic"
        ELSE IF ~allowed.val.is_some THEN "ok"
        ELSE IF s.total_supply + mint_amount > allowed.val.val
        THEN "MintAmountTooLarge"
        ELSE "ok"


\* ------------------------------------------------------- call outcomes
Return(op, sender, args, result, msgs, sub) ==
    /\ last' = [ op |-> op, sender |-> sender, args |-> args,
                 result |-> result, msgs |-> msgs, sub |-> sub ]
    /\ refreshed_at' = IF op = "refresh_collateral_ratio" /\ result = "ok"
                       THEN now ELSE refreshed_at

\* an error or an abort: the host keeps nothing of the call
Fail(op, sender, args, result) ==
    /\ Return(op, sender, args, result, << >>, << >>)
    /\ UNCHANGED << pool, user, synth_oracle, share_oracle, epoch, ownable,
                    synth_supply, circulating, bank, replies, chain >>

Msg(kind, to, amount) == [ kind |-> kind, to |-> to, amount |-> amount ]

Coin(denom, amount) == [ denom |-> denom, amount |-> amount ]

\* the amount of the first coin, whatever its denom
find_amount_any_denom(funds, denom) ==
    IF funds = << >> THEN 0 ELSE funds[1].amount

\* funds.iter().find(|x| x.denom == denom).map(|x| x.amount).unwrap_or(0)
find_amount(funds, denom) ==
    LET hits == { i \in 1..Len(funds) : funds[i].denom = denom }
    IN  IF hits = {} THEN 0
        ELSE funds[CHOOSE i \in hits : \A j \in hits : i <= j].amount

\* a check against the instantiating owner instead of the stored one
is_owner_at_instantiate(caller) == caller = Owner

is_owner(caller) == caller = ownable.owner

\* ------------------------------------------- replies of instantiate
\* a setter that takes a new address over an old one
set_synth_address_overwrites(p, addr) ==
    [ result |-> "ok", pool |-> [p EXCEPT !.synth = addr] ]

set_synth_address(p, addr) ==
    IF p.synth # NoAddr THEN [ result |-> "SynthAlreadySet", pool |-> p ]
    ELSE [ result |-> "ok", pool |-> [p EXCEPT !.synth = addr] ]

set_share_address(p, addr) ==
    IF p.share # NoAddr THEN [ result |-> "ShareAlreadySet", pool |-> p ]
    ELSE [ result |-> "ok", pool |-> [p EXCEPT !.share = addr] ]

reply ==
    /\ replies # << >>
    /\ LET id == Head(replies)
           r == IF id = 1 THEN set_synth_address(pool, SynthToken)
                ELSE set_share_address(pool, ShareToken)
       IN  /\ pool' = r.pool
           /\ Return("reply", NoAddr, << id >>, r.result, << >>, << >>)
    /\ replies' = Tail(replies)
    /\ UNCHANGED << user, synth_oracle, share_oracle, epoch, ownable,
                    synth_supply, circulating, bank, chain >>

\* ------------------------------------------------------------- the chain
\* a new block: time advances by dt and the pair accrues price * dt
NewBlock(dt, prices) ==
    /\ replies = << >>
    /\ now + dt <= MaxTime
    /\ height < MaxHeight
    /\ now' = now + dt
    /\ height' = height + 1
    /\ cum' = << cum[1] + prices[1] * dt, cum[2] + prices[2] * dt >>
    /\ Return("block", NoAddr, << >>, "ok", << >>, << >>)
    /\ UNCHANGED << pool, user, synth_oracle, share_oracle, epoch, ownable,
                    assets, synth_supply, circulating, bank, replies,
                    stake >>

\* ----------------------------------------------------- Pool (pool.rs)
\* WasmMsg::Execute to the router: ExecuteSwapOperations with one AstroSwap
\* from the native denom offer to the token ask, proceeds to receiver,
\* funded with amount of the offered denom
SwapMsg(offer, ask, receiver, amount) ==
    [ kind |-> "swap", to |-> "router", amount |-> amount,
      offer |-> offer, ask |-> ask, receiver |-> receiver ]

\* the two messages in the opposite order
buy_share_and_burn_burns_first(p, buy_share_value) ==
    IF buy_share_value # 0
    THEN << Msg("burn_share", "self", 0),
            SwapMsg(p.collateral_denom, p.share, "self", buy_share_value) >>
    ELSE << >>

buy_share_and_burn(p, buy_share_value) ==
    IF buy_share_value # 0
    THEN << SwapMsg(p.collateral_denom, p.share, "self", buy_share_value),
            Msg("burn_share", "self", 0) >>
    ELSE << >>

Pool_mint(sender, funds, min_synth_out) ==
    LET args == << funds, min_synth_out >>
        collateral_in == find_amount(funds, pool.collateral_denom)
        m == PoolConfig_mint(pool, user[sender], height, collateral_in)
        cap == assert_mint_amount(epoch, m.pool, m.result.synth_out, now)
    IN  /\ replies = << >>
        /\ IF pool.mint_paused
           THEN Fail("mint", sender, args, "MintingPaused")
           ELSE IF collateral_in = 0
           THEN Fail("mint", sender, args, "MintInvalidCollateralAmount")
           ELSE IF ~m.result.ok
           THEN Fail("mint", sender, args, "panic")
           ELSE IF m.result.synth_out < min_synth_out
           THEN Fail("mint", sender, args, "SlippageReached")
           ELSE IF cap # "ok"
           THEN Fail("mint", sender, args, cap)
           ELSE /\ m.user.synth_balance <= MaxPending
                /\ user' = [user EXCEPT ![sender] = m.user]
                /\ pool' = m.pool
                /\ bank' = bank + collateral_in - m.result.buy_share_value
                /\ Return("mint", sender, args, "ok",
                          buy_share_and_burn(m.pool, m.result.buy_share_value),
                          << >>)
                /\ UNCHANGED << synth_oracle, share_oracle, epoch, ownable,
                                synth_supply, circulating, replies, chain >>

\* receive-and-redeem: token is the CW20 contract that calls Receive
Pool_redeem(sender, token, synth_amount, min_collateral_out, min_share_out) ==
    LET args == << token, synth_amount, min_collateral_out, min_share_out >>
        price == get_spot_price(share_oracle)
        m == PoolConfig_redeem(pool, user[sender], height, synth_amount,
                               price.val)
    IN  /\ replies = << >>
        /\ token = SynthToken => synth_amount <= circulating
        /\ IF pool.redeem_paused
           THEN Fail("redeem", sender, args, "RedemptionPaused")
           ELSE IF pool.synth # token
           THEN Fail("redeem", sender, args, "RedeemInvalidSynthInput")
           ELSE IF synth_amount = 0
           THEN Fail("redeem", sender, args, "RedeemEmptyAmount")
           ELSE IF price.result # "ok"
           THEN Fail("redeem", sender, args, price.result)
           ELSE IF ~m.result.ok
           THEN Fail("redeem", sender, args, "panic")
           ELSE IF \/ m.result.collateral_out < min_collateral_out
                   \/ m.result.share_out < min_share_out
           THEN Fail("redeem", sender, args, "SlippageReached")
           ELSE /\ m.user.collateral_balance <= MaxPending
                /\ m.user.share_balance <= MaxPending
                /\ pool' = m.pool
                /\ user' = [user EXCEPT ![sender] = m.user]
                /\ circulating' = circulating - synth_amount
                /\ Return("redeem", sender, args, "ok", << >>, << >>)
                /\ UNCHANGED << synth_oracle, share_oracle, epoch, ownable,
                                synth_supply, bank, replies, chain >>

\* a collect that sends the collateral before it mints
collect_messages_sends_first(p, sender, c) ==
    (IF c.collateral_amount # 0
     THEN << Msg("send_collateral", sender, c.collateral_amount) >>
     ELSE << >>)
    \o (IF c.synth_amount # 0
        THEN << Msg("mint_synth", sender, c.synth_amount) >> ELSE << >>)
    \o (IF c.share_amount # 0
        THEN << Msg("mint_share", sender, c.share_amount) >> ELSE << >>)

collect_messages(p, sender, c) ==
    (IF c.synth_amount # 0
     THEN << Msg("mint_synth", sender, c.synth_amount) >> ELSE << >>)
    \o (IF c.share_amount # 0
        THEN << Msg("mint_share", sender, c.share_amount) >> ELSE << >>)
    \o (IF c.collateral_amount # 0
        THEN << Msg("send_collateral", sender, c.collateral_amount) >>
        ELSE << >>)

\* whether collect is refused at block_height
collect_too_early_strict(block_height, u) ==
    block_height < u.last_action_block

collect_too_early(block_height, u) == block_height <= u.last_action_block

\* the bank send of more than the contract holds fails and reverts the call
Pool_collect(sender) ==
    LET c == PoolConfig_collect(pool, user[sender])
    IN  /\ replies = << >>
        /\ IF collect_too_early(height, user[sender])
           THEN Fail("collect", sender, << >>, "CollectTooEarly")
           ELSE IF ~c.ok
           THEN Fail("collect", sender, << >>, "panic")
           ELSE IF c.collateral_amount > bank
           THEN Fail("collect", sender, << >>, "BankSendFailed")
           ELSE /\ user' = [user EXCEPT ![sender] = c.user]
                /\ pool' = c.pool
                /\ synth_supply' = synth_supply + c.synth_amount
                /\ circulating' = circulating + c.synth_amount
                /\ bank' = bank - c.collateral_amount
                /\ Return("collect", sender, << >>, "ok",
                          collect_messages(c.pool, sender, c), << >>)
                /\ UNCHANGED << synth_oracle, share_oracle, epoch, ownable,
                                replies, chain >>

Pool_refresh_collateral_ratio(sender) ==
    LET t == get_twap(synth_oracle)
        r == PoolConfig_refresh_collateral_ratio(pool, t.twap)
    IN  /\ replies = << >>
        /\ IF now < pool.last_refresh_collateral_ratio
                        + pool.refresh_collateral_ratio_cooldown
           THEN Fail("refresh_collateral_ratio", sender, << >>,
                     "CollateralRatioRefreshCooldown")
           ELSE IF t.result # "ok"
           THEN Fail("refresh_collateral_ratio", sender, << >>, t.result)
           ELSE IF t.last_update < pool.last_refresh_collateral_ratio
           THEN Fail("refresh_collateral_ratio", sender, << >>,
                     "PriceUnavailableOrOutdated")
           ELSE IF ~r.ok
           THEN Fail("refresh_collateral_ratio", sender, << >>, "panic")
           ELSE /\ pool' = r.pool
                /\ Return("refresh_collateral_ratio", sender, << >>, "ok",
                          << >>, << >>)
                /\ UNCHANGED << user, synth_oracle, share_oracle, epoch,
                                ownable, synth_supply, circulating, bank,
                                replies, chain >>


\* -------------------------------------------- owner-gated pool settings
Pool_set_fee(sender, minting_fee, redemption_fee) ==
    LET args == << minting_fee, redemption_fee >>
    IN  /\ replies = << >>
        /\ IF ~is_owner(sender)
           THEN Fail("set_fee", sender, args, "Unauthorized")
           ELSE /\ pool' = [pool EXCEPT !.minting_fee = minting_fee,
                                        !.redemption_fee = redemption_fee]
                /\ Return("set_fee", sender, args, "ok", << >>, << >>)
                /\ UNCHANGED << user, synth_oracle, share_oracle, epoch,
                                ownable, synth_supply, circulating, bank,
                                replies, chain >>

\* a toggle that stores each flag in the other's place
Pool_toggle_swapped(sender, mint_paused, redeem_paused) ==
    LET args == << mint_paused, redeem_paused >>
    IN  /\ replies = << >>
        /\ IF ~is_owner(sender)
           THEN Fail("toggle", sender, args, "Unauthorized")
           ELSE /\ pool' = [pool EXCEPT !.mint_paused = redeem_paused,
                                        !.redeem_paused = mint_paused]
                /\ Return("toggle", sender, args, "ok", << >>, << >>)
                /\ UNCHANGED << user, synth_oracle, share_oracle, epoch,
                                ownable, synth_supply, circulating, bank,
                                replies, chain >>

Pool_toggle(sender, mint_paused, redeem_paused) ==
    LET args == << mint_paused, redeem_paused >>
    IN  /\ replies = << >>
        /\ IF ~is_owner(sender)
           THEN Fail("toggle", sender, args, "Unauthorized")
           ELSE /\ pool' = [pool EXCEPT !.mint_paused = mint_paused,
                                        !.redeem_paused = redeem_paused]
                /\ Return("toggle", sender, args, "ok", << >>, << >>)
                /\ UNCHANGED << user, synth_oracle, share_oracle, epoch,
                                ownable, synth_supply, circulating, bank,
                                replies, chain >>

Pool_set_min_collateral_ratio(sender, value) ==
    /\ replies = << >>
    /\ IF ~is_owner(sender)
       THEN Fail("set_min_collateral_ratio", sender, << value >>,
                 "Unauthorized")
       ELSE /\ pool' = [pool EXCEPT !.min_collateral_ratio = value]
            /\ Return("set_min_collateral_ratio", sender, << value >>, "ok",
                      << >>, << >>)
            /\ UNCHANGED << user, synth_oracle, share_oracle, epoch, ownable,
                            synth_supply, circulating, bank, replies, chain >>

\* ------------------------------------------------------ oracle entries
\* each update_twap error is dropped (.ok()); an abort ends the whole call
execute_update_oracle(sender) ==
    LET share == update_twap(share_oracle, now)
        synth == update_twap(synth_oracle, now)
    IN  /\ replies = << >>
        /\ IF share.result = "panic"
           THEN /\ Return("update_oracle", sender, << >>, "panic", << >>,
                          << share.result, "not run" >>)
                /\ UNCHANGED << share_oracle, synth_oracle >>
           ELSE IF synth.result = "panic"
           THEN /\ Return("update_oracle", sender, << >>, "panic", << >>,
                          << share.result, synth.result >>)
                /\ UNCHANGED << share_oracle, synth_oracle >>
           ELSE /\ share_oracle' = share.state
                /\ synth_oracle' = synth.state
                /\ Return("update_oracle", sender, << >>, "ok", << >>,
                          << share.result, synth.result >>)
        /\ UNCHANGED << pool, user, epoch, ownable, synth_supply,
                        circulating, bank, replies, chain >>

execute_config_share_oracle(sender, pair_addr, share_index, twap_period) ==
    LET args == << pair_addr, share_index, twap_period >>
        c == PairOracle_config(share_oracle, pair_addr, share_index,
                               twap_period, now)
    IN  /\ replies = << >>
        /\ IF ~is_owner(sender)
           THEN Fail("config_share_oracle", sender, args, "Unauthorized")
           ELSE IF c.result # "ok"
           THEN Fail("config_share_oracle", sender, args, c.result)
           ELSE /\ share_oracle' = c.state
                /\ Return("config_share_oracle", sender, args, "ok",
                          << >>, << >>)
                /\ UNCHANGED << pool, user, synth_oracle, epoch, ownable,
                                synth_supply, circulating, bank, replies,
                                chain >>

Epoch_config_oracle(e, pair_addr, base_index, t) ==
    LET q == query_cumulative_prices(pair_addr, base_index)
    IN  IF base_index > 1 THEN [ result |-> "Std", state |-> e ]
        ELSE IF ~q.ok THEN [ result |-> "Std", state |-> e ]
        ELSE [ result |-> "ok",
               state |-> [e EXCEPT
                   !.pair_addr = pair_addr,
                   !.base_index = base_index,
                   !.start_timestamp = t,
                   !.price_cumulative_last = q.val] ]

execute_config_synth_oracle(sender, pair_addr, synth_index, twap_period) ==
    LET args == << pair_addr, synth_index, twap_period >>
        c == PairOracle_config(synth_oracle, pair_addr, synth_index,
                               twap_period, now)
        e == Epoch_config_oracle(epoch, pair_addr, synth_index, now)
    IN  /\ replies = << >>
        /\ IF ~is_owner(sender)
           THEN Fail("config_synth_oracle", sender, args, "Unauthorized")
           ELSE IF c.result # "ok"
           THEN Fail("config_synth_oracle", sender, args, c.result)
           ELSE IF e.result # "ok"
           THEN Fail("config_synth_oracle", sender, args, e.result)
           ELSE /\ synth_oracle' = c.state
                /\ epoch' = e.state
                /\ Return("config_synth_oracle", sender, args, "ok",
                          << >>, << >>)
                /\ UNCHANGED << pool, user, share_oracle, ownable,
                                synth_supply, circulating, bank, replies,
                                chain >>

\* ------------------------------------------------------- epoch entries
Epoch_config_epoch(sender, epoch_duration, ceil_price, max_expansion_rate) ==
    LET args == << epoch_duration, ceil_price, max_expansion_rate >>
    IN  /\ replies = << >>
        /\ IF ~is_owner(sender)
           THEN Fail("set_epoch_config", sender, args, "Unauthorized")
           ELSE IF ceil_price.is_some /\ ceil_price.val < PRECISION
           THEN Fail("set_epoch_config", sender, args, "InvalidConfig")
           ELSE /\ epoch' = [epoch EXCEPT
                                 !.ceil_price = ceil_price,
                                 !.max_expansion_rate = max_expansion_rate,
                                 !.epoch_duration = epoch_duration]
                /\ Return("set_epoch_config", sender, args, "ok",
                          << >>, << >>)
                /\ UNCHANGED << pool, user, synth_oracle, share_oracle,
                                ownable, synth_supply, circulating, bank,
                                replies, chain >>

\* whether next_epoch is refused at time t
epoch_not_elapsed_ignores_duration(e, t) == e.start_timestamp > t

epoch_not_elapsed(e, t) == e.start_timestamp + e.epoch_duration > t

Epoch_next_epoch(sender) ==
    LET q == query_cumulative_prices(epoch.pair_addr, epoch.base_index)
        s == get_token_supply(pool.synth)
        n == Epoch_next(epoch, s.total_supply, q.val, now)
    IN  /\ replies = << >>
        /\ IF epoch_not_elapsed(epoch, now)
           THEN Fail("update_epoch", sender, << >>, "EpochNotElapsed")
           ELSE IF ~q.ok \/ ~s.ok
           THEN Fail("update_epoch", sender, << >>, "Std")
           ELSE IF ~n.ok
           THEN Fail("update_epoch", sender, << >>, "panic")
           ELSE /\ epoch' = n.state
                /\ Return("update_epoch", sender, << n.twap >>, "ok",
                          << >>, << >>)
                /\ UNCHANGED << pool, user, synth_oracle, share_oracle,
                                ownable, synth_supply, circulating, bank,
                                replies, chain >>

\* State::get_expansion_rate and State::next applied to the stored epoch
\* state, the result kept in last and nothing saved
Epoch_get_expansion_rate(supply_digits, twap) ==
    /\ replies = << >>
    /\ Return("get_expansion_rate", NoAddr, << supply_digits, twap >>, "ok",
              << >>,
              << expansion_rate_of_tier(epoch, tier_position_of(supply_digits),
                                        twap) >>)
    /\ UNCHANGED << store, synth_supply, circulating, bank, replies, chain >>

Epoch_apply_next(token_supply, price_cumulative) ==
    LET n == Epoch_next(epoch, token_supply, price_cumulative, now)
    IN  /\ replies = << >>
        /\ Return("next", NoAddr, << token_supply, price_cumulative >>,
                  IF n.ok THEN "ok" ELSE "panic", << >>,
                  << n.twap, n.state >>)
        /\ UNCHANGED << store, synth_supply, circulating, bank, replies,
                        chain >>

\* query_pool_info: the collateral the contract holds beyond the fees and
\* the pending claims; the subtraction aborts below zero
query_pool_info ==
    LET owed == pool.total_fee + pool.total_unclaimed_collateral
    IN  /\ replies = << >>
        /\ Return("pool_info", NoAddr, << >>,
                  IF bank >= owed THEN "ok" ELSE "panic", << >>,
                  << IF bank >= owed THEN bank - owed ELSE 0 >>)
        /\ UNCHANGED << store, synth_supply, circulating, bank, replies,
                        chain >>

\* ------------------------------------------------ queries (contract.rs)
\* amounts of a query are digit sequences: any Uint128 can be asked about
query_calc_mint(collateral_amount) ==
    LET r == PoolConfig_calc_mint(pool, collateral_amount)
    IN  /\ replies = << >>
        /\ Return("calc_mint", NoAddr, << collateral_amount >>,
                  IF r.ok THEN "ok" ELSE "panic", << >>,
                  << r.buy_share_value, r.synth_out, r.fee >>)
        /\ UNCHANGED << store, synth_supply, circulating, bank, replies,
                        chain >>

query_calc_redeem(synth_amount) ==
    LET price == get_spot_price(share_oracle)
        r == PoolConfig_calc_redeem(pool, synth_amount, price.val)
    IN  /\ replies = << >>
        /\ Return("calc_redeem", NoAddr, << synth_amount >>,
                  IF price.result # "ok" THEN price.result
                  ELSE IF r.ok THEN "ok" ELSE "panic", << >>,
                  IF price.result = "ok"
                  THEN << r.collateral_out, r.fee, r.share_out >>
                  ELSE << >>)
        /\ UNCHANGED << store, synth_supply, circulating, bank, replies,
                        chain >>

\* --------------------------------------------------- ownable (lib.rs)
execute_transfer_ownership(sender, to) ==
    /\ replies = << >>
    /\ IF sender # ownable.owner
       THEN Fail("transfer_ownership", sender, << to >>, "Unauthorized")
       ELSE /\ ownable' = [ownable EXCEPT !.pending_owner = to]
            /\ Return("transfer_ownership", sender, << to >>, "ok",
                      << >>, << >>)
            /\ UNCHANGED << pool, user, synth_oracle, share_oracle, epoch,
                            synth_supply, circulating, bank, replies, chain >>

\* an accept that leaves the nomination standing
execute_accept_ownership_keeps_pending(sender) ==
    /\ replies = << >>
    /\ IF sender # ownable.pending_owner
       THEN Fail("accept_ownership", sender, << >>, "Unauthorized")
       ELSE /\ ownable' = [ownable EXCEPT !.owner = sender]
            /\ Return("accept_ownership", sender, << >>, "ok", << >>, << >>)
            /\ UNCHANGED << pool, user, synth_oracle, share_oracle, epoch,
                            synth_supply, circulating, bank, replies, chain >>

execute_accept_ownership(sender) ==
    /\ replies = << >>
    /\ IF sender # ownable.pending_owner
       THEN Fail("accept_ownership", sender, << >>, "Unauthorized")
       ELSE /\ ownable' = [ owner |-> sender, pending_owner |-> NoAddr ]
            /\ Return("accept_ownership", sender, << >>, "ok", << >>, << >>)
            /\ UNCHANGED << pool, user, synth_oracle, share_oracle, epoch,
                            synth_supply, circulating, bank, replies, chain >>


\* ================================================= fantastic-stake
\* --------------------------------------------- PoolInfo (stake pool.rs)
\* position of the first entry for addr in a list of entries, 0 if none
IndexOf(entries, addr) ==
    LET hits == { i \in 1..Len(entries) : entries[i].addr = addr }
    IN  IF hits = {} THEN 0 ELSE CHOOSE i \in hits : \A j \in hits : i <= j

\* weight * acc_reward_per_share / ACC_REWARD_PRECISION
Accrued(weight, acc_reward_per_share) ==
    multiply_ratio(acc_reward_per_share, weight, ACC_REWARD_PRECISION)

RECURSIVE BoostWeight(_, _, _)
BoostWeight(boost_tokens, user_boost, i) ==
    IF i > Len(boost_tokens) THEN 0
    ELSE LET k == IndexOf(user_boost, boost_tokens[i].addr)
         IN  (IF k = 0 THEN 0
              ELSE (user_boost[k].amount * boost_tokens[i].multiplier)
                       \div BOOST_MULTIPLIER_PRECISION)
             + BoostWeight(boost_tokens, user_boost, i + 1)

calc_user_weight(p, u) == u.amount + BoostWeight(p.boost_tokens, u.boost_token, 1)

RECURSIVE BoostStaked(_, _)
BoostStaked(boost_tokens, i) ==
    IF i > Len(boost_tokens) THEN 0
    ELSE boost_tokens[i].total_staked * boost_tokens[i].multiplier
         + BoostStaked(boost_tokens, i + 1)

calc_total_weight(p) ==
    (p.total_staked * BOOST_MULTIPLIER_PRECISION + BoostStaked(p.boost_tokens, 1))
        \div BOOST_MULTIPLIER_PRECISION

calculate_acc_reward_per_share(p, t) ==
    LET total_weight == calc_total_weight(p)
    IN  IF t > p.last_update_timestamp /\ total_weight # 0
        THEN p.acc_reward_per_share
             + multiply_ratio(p.reward_per_second * (t - p.last_update_timestamp),
                              ACC_REWARD_PRECISION, total_weight)
        ELSE p.acc_reward_per_share

update_reward(p, t) ==
    [p EXCEPT !.acc_reward_per_share = calculate_acc_reward_per_share(p, t),
              !.last_update_timestamp = t]

\* to_uint128 aborts on a negative reward
pending_reward(p, u, t) ==
    LET reward == Accrued(calc_user_weight(p, u),
                          calculate_acc_reward_per_share(p, t)) - u.reward_debt
    IN  [ ok |-> reward >= 0, reward |-> reward ]

add_boost_token(u, token, amount) ==
    LET k == IndexOf(u.boost_token, token)
    IN  IF k # 0 THEN [u EXCEPT !.boost_token[k].amount = @ + amount]
        ELSE [u EXCEPT !.boost_token
                  = Append(@, [ addr |-> token, amount |-> amount ])]

\* a deposit that does not add to the pool's total
PoolInfo_deposit_untallied(p, u, t, amount) ==
    LET q == update_reward(p, t)
    IN  [ pool |-> q,
          user |-> [u EXCEPT
              !.amount = @ + amount,
              !.reward_debt = @ + Accrued(amount, q.acc_reward_per_share)] ]

PoolInfo_deposit(p, u, t, amount) ==
    LET q == update_reward(p, t)
    IN  [ pool |-> [q EXCEPT !.total_staked = @ + amount],
          user |-> [u EXCEPT
              !.amount = @ + amount,
              !.reward_debt = @ + Accrued(amount, q.acc_reward_per_share)] ]

PoolInfo_deposit_boost_token(p, u, t, token, amount) ==
    LET q == update_reward(p, t)
        k == IndexOf(q.boost_tokens, token)
        boosted_amount == (q.boost_tokens[k].multiplier * amount)
                              \div BOOST_MULTIPLIER_PRECISION
    IN  IF k = 0 THEN [ pool |-> q, user |-> u ]
        ELSE [ pool |-> [q EXCEPT !.boost_tokens[k].total_staked = @ + amount],
               user |-> add_boost_token(
                   [u EXCEPT !.reward_debt
                       = @ + Accrued(boosted_amount, q.acc_reward_per_share)],
                   token, amount) ]

\* the loop that hands an emptied user's boost tokens back: each entry's
\* total_staked goes down by the user's amount, with checked subtraction
RECURSIVE release_boost(_, _)
release_boost(boost_tokens, user_boost) ==
    IF user_boost = << >> THEN [ ok |-> TRUE, boost_tokens |-> boost_tokens ]
    ELSE LET k == IndexOf(boost_tokens, user_boost[1].addr)
         IN  IF k = 0 THEN release_boost(boost_tokens, Tail(user_boost))
             ELSE IF boost_tokens[k].total_staked < user_boost[1].amount
             THEN [ ok |-> FALSE, boost_tokens |-> boost_tokens ]
             ELSE release_boost(
                      [boost_tokens EXCEPT ![k].total_staked
                           = @ - user_boost[1].amount],
                      Tail(user_boost))

Cw20Coin(address, amount) == [ address |-> address, amount |-> amount ]

boost_coins(user_boost) ==
    [ i \in 1..Len(user_boost)
        |-> Cw20Coin(user_boost[i].addr, user_boost[i].amount) ]

PoolInfo_withdraw(p, u, t, amount) ==
    LET q == update_reward(p, t)
        user_weight_prior == calc_user_weight(q, u)
        emptied == u.amount = amount
        rel == IF emptied THEN release_boost(q.boost_tokens, u.boost_token)
               ELSE [ ok |-> TRUE, boost_tokens |-> q.boost_tokens ]
        q2 == [q EXCEPT !.total_staked = @ - amount,
                        !.boost_tokens = rel.boost_tokens]
        u2 == [u EXCEPT !.amount = @ - amount,
                        !.boost_token = IF emptied THEN << >> ELSE @]
        withdrawal_weight == user_weight_prior - calc_user_weight(q2, u2)
    IN  [ ok |-> /\ p.total_staked >= amount /\ u.amount >= amount
                 /\ rel.ok /\ withdrawal_weight >= 0,
          pool |-> q2,
          user |-> [u2 EXCEPT !.reward_debt
                       = @ - Accrued(withdrawal_weight, q.acc_reward_per_share)],
          send_tokens |-> << Cw20Coin(p.want_token, amount) >>
                          \o (IF emptied THEN boost_coins(u.boost_token)
                              ELSE << >>) ]

PoolInfo_harvest(p, u, t) ==
    LET q == update_reward(p, t)
        accumulated_reward == Accrued(calc_user_weight(q, u),
                                      q.acc_reward_per_share)
        reward == accumulated_reward - u.reward_debt
    IN  [ ok |-> reward >= 0,
          pool |-> q,
          user |-> [u EXCEPT !.reward_debt = accumulated_reward],
          reward |-> reward ]

PoolInfo_withdraw_and_harvest(p, u, t, amount) ==
    LET q == update_reward(p, t)
        accumulated_reward == Accrued(calc_user_weight(q, u),
                                      q.acc_reward_per_share)
        reward_amount == accumulated_reward - u.reward_debt
        emptied == u.amount = amount
        rel == IF emptied THEN release_boost(q.boost_tokens, u.boost_token)
               ELSE [ ok |-> TRUE, boost_tokens |-> q.boost_tokens ]
    IN  [ ok |-> /\ reward_amount >= 0
                 /\ p.total_staked >= amount /\ u.amount >= amount
                 /\ rel.ok,
          pool |-> [q EXCEPT !.total_staked = @ - amount,
                             !.boost_tokens = rel.boost_tokens],
          user |-> [u EXCEPT
              !.amount = @ - amount,
              !.reward_debt = accumulated_reward
                                  - Accrued(amount, q.acc_reward_per_share),
              !.boost_token = IF emptied THEN << >> ELSE @],
          send_tokens |-> << Cw20Coin(p.want_token, amount),
                             Cw20Coin(p.reward_token, reward_amount) >>
                          \o (IF emptied THEN boost_coins(u.boost_token)
                              ELSE << >>) ]

PoolInfo_set_reward_per_second(p, t, reward_per_second) ==
    [update_reward(p, t) EXCEPT !.reward_per_second = reward_per_second]

PoolInfo_set_boost_token(p, token, multiplier, t) ==
    LET q == update_reward(p, t)
        k == IndexOf(q.boost_tokens, token)
    IN  IF k # 0 THEN [q EXCEPT !.boost_tokens[k].multiplier = multiplier]
        ELSE [q EXCEPT !.boost_tokens
                  = Append(@, [ addr |-> token, multiplier |-> multiplier,
                                total_staked |-> 0 ])]

\* ------------------------------------------------- Stake (stake.rs)
pool_contract == << pool, user, synth_oracle, share_oracle, epoch, ownable,
                    synth_supply, circulating, bank, replies >>

StakeFail(op, sender, args, result) ==
    /\ Return(op, sender, args, result, << >>, << >>)
    /\ UNCHANGED << pool_contract, chain >>

\* a call that got through: the new store, the new holdings of position
\* tokens and the messages sent
StakeDone(op, sender, args, p, account, u, position, msgs) ==
    /\ stake' = [stake EXCEPT !.pool = p, !.user[account] = u,
                              !.position = position]
    /\ Return(op, sender, args, "ok", msgs, << >>)
    /\ UNCHANGED << pool_contract, now, height, cum, assets >>

Cw20Msg(kind, token, to, amount) ==
    [ kind |-> kind, token |-> token, to |-> to, amount |-> amount ]

transfers(send_tokens, to) ==
    [ i \in 1..Len(send_tokens)
        |-> Cw20Msg("transfer", send_tokens[i].address, to,
                    send_tokens[i].amount) ]

\* a CW20 Send reaches the contract only if the sender holds the amount;
\* only the holdings of the position token are followed
Holds(token, account, amount) ==
    token = PositionToken => stake.position[account] >= amount

\* the position tokens that came with a call stay with the contract
Taken(token, account, amount) ==
    IF token = PositionToken
    THEN [stake.position EXCEPT ![account] = @ - amount]
    ELSE stake.position

Stake_set_position_token ==
    /\ stake.replies # << >>
    /\ IF stake.pool.position_token # NoAddr
       THEN /\ stake' = [stake EXCEPT !.replies = Tail(@)]
            /\ Return("set_position_token", NoAddr, << >>, "Unauthorized",
                      << >>, << >>)
       ELSE /\ stake' = [stake EXCEPT !.replies = Tail(@),
                                      !.pool.position_token = PositionToken]
            /\ Return("set_position_token", NoAddr, << >>, "ok", << >>,
                      << >>)
    /\ UNCHANGED << pool_contract, now, height, cum, assets >>

\* Receive with Deposit { to }
Stake_deposit(token, token_sender, to, amount) ==
    LET args == << token, to, amount >>
        account == IF to = NoAddr THEN token_sender ELSE to
        d == PoolInfo_deposit(stake.pool, stake.user[account], now, amount)
    IN  /\ stake.replies = << >>
        /\ Holds(token, token_sender, amount)
        /\ IF stake.pool.want_token # token
           THEN StakeFail("deposit", token_sender, args, "InvalidDepositToken")
           ELSE StakeDone("deposit", token_sender, args, d.pool, account,
                          d.user,
                          [stake.position EXCEPT ![account] = @ + amount],
                          << Cw20Msg("mint", stake.pool.position_token,
                                     account, amount) >>)

\* Receive with DepositBoostToken { to }
Stake_deposit_boost_token(token, token_sender, to, amount) ==
    LET args == << token, to, amount >>
        account == IF to = NoAddr THEN token_sender ELSE to
        d == PoolInfo_deposit_boost_token(stake.pool, stake.user[account],
                                          now, token, amount)
    IN  /\ stake.replies = << >>
        /\ Holds(token, token_sender, amount)
        /\ IF stake.user[account].amount = 0
           THEN StakeFail("deposit_boost_token", token_sender, args,
                          "BoostWithEmptyDeposit")
           ELSE StakeDone("deposit_boost_token", token_sender, args, d.pool,
                          account, d.user,
                          Taken(token, token_sender, amount), << >>)

\* Receive with Withdraw {}
Stake_withdraw(token, token_sender, amount) ==
    LET args == << token, amount >>
        u == stake.user[token_sender]
        w == PoolInfo_withdraw(stake.pool, u, now, amount)
    IN  /\ stake.replies = << >>
        /\ Holds(token, token_sender, amount)
        /\ IF stake.pool.position_token # token
           THEN StakeFail("withdraw", token_sender, args,
                          "WithdrawInvalidPositionToken")
           ELSE IF u.amount < amount
           THEN StakeFail("withdraw", token_sender, args, "WithdrawTooMuch")
           ELSE IF amount = 0
           THEN StakeFail("withdraw", token_sender, args,
                          "WithdrawInvalidPositionToken")
           ELSE IF ~w.ok
           THEN StakeFail("withdraw", token_sender, args, "panic")
           ELSE StakeDone("withdraw", token_sender, args, w.pool,
                          token_sender, w.user,
                          Taken(token, token_sender, amount),
                          << Cw20Msg("burn", stake.pool.position_token,
                                     NoAddr, amount) >>
                          \o transfers(w.send_tokens, token_sender))

\* Receive with WithdrawAndHarvest {}
Stake_withdraw_and_harvest(token, token_sender, amount) ==
    LET args == << token, amount >>
        u == stake.user[token_sender]
        w == PoolInfo_withdraw_and_harvest(stake.pool, u, now, amount)
    IN  /\ stake.replies = << >>
        /\ Holds(token, token_sender, amount)
        /\ IF stake.pool.position_token # token
           THEN StakeFail("withdraw_and_harvest", token_sender, args,
                          "WithdrawInvalidPositionToken")
           ELSE IF u.amount < amount
           THEN StakeFail("withdraw_and_harvest", token_sender, args,
                          "WithdrawTooMuch")
           ELSE IF amount = 0
           THEN StakeFail("withdraw_and_harvest", token_sender, args,
                          "WithdrawInvalidPositionToken")
           ELSE IF ~w.ok
           THEN StakeFail("withdraw_and_harvest", token_sender, args, "panic")
           ELSE StakeDone("withdraw_and_harvest", token_sender, args, w.pool,
                          token_sender, w.user,
                          Taken(token, token_sender, amount),
                          << Cw20Msg("burn", stake.pool.position_token,
                                     NoAddr, amount) >>
                          \o transfers(w.send_tokens, token_sender))

\* Harvest { to }
Stake_harvest(sender, to) ==
    LET account == IF to = NoAddr THEN sender ELSE to
        h == PoolInfo_harvest(stake.pool, stake.user[account], now)
    IN  /\ stake.replies = << >>
        /\ IF ~h.ok
           THEN StakeFail("harvest", sender, << to >>, "panic")
           ELSE StakeDone("harvest", sender, << to >>, h.pool, account,
                          h.user, stake.position,
                          << Cw20Msg("transfer", stake.pool.reward_token,
                                     account, h.reward) >>)

Stake_set_reward_per_second(sender, reward_per_second) ==
    /\ stake.replies = << >>
    /\ IF sender # stake.owner
       THEN StakeFail("set_reward_per_second", sender,
                      << reward_per_second >>, "Unauthorized")
       ELSE /\ stake' = [stake EXCEPT !.pool
                   = PoolInfo_set_reward_per_second(@, now, reward_per_second)]
            /\ Return("set_reward_per_second", sender,
                      << reward_per_second >>, "ok", << >>, << >>)
            /\ UNCHANGED << pool_contract, now, height, cum, assets >>

Stake_set_boost_token(sender, token, multiplier) ==
    /\ stake.replies = << >>
    /\ IF sender # stake.owner
       THEN StakeFail("set_boost_token", sender, << token, multiplier >>,
                      "Unauthorized")
       ELSE /\ stake' = [stake EXCEPT !.pool
                   = PoolInfo_set_boost_token(@, token, multiplier, now)]
            /\ Return("set_boost_token", sender, << token, multiplier >>,
                      "ok", << >>, << >>)
            /\ UNCHANGED << pool_contract, now, height, cum, assets >>

\* the position token is a CW20 of its own: a holder transfers it
position_transfer(from, to, amount) ==
    /\ stake.replies = << >>
    /\ amount > 0 /\ from # to
    /\ stake.position[from] >= amount
    /\ stake' = [stake EXCEPT !.position[from] = @ - amount,
                              !.position[to] = @ + amount]
    /\ Return("position_transfer", from, << to, amount >>, "ok", << >>, << >>)
    /\ UNCHANGED << pool_contract, now, height, cum, assets >>


\* ------------------------------------------------- inputs of the calls
FakeToken == "fake"
MintFunds ==
    { << Coin("uusd", 300) >>,
      << Coin("uusd", 5), Coin(CollateralDenom, 1000) >> }
MinOuts == {0, 998}
RedeemAmounts == {0, 600}
Periods == {0, 600}
Prices == { << 990000, 1000000 >>, << 1010000, 1000000 >> }
Durations == {300, 600}
Ratios == {995000, 1000000, 1000001}
Fees == {0, 3000, 1000000, 1000001}
CeilPrices == { None, Some(999999), Some(1000000) }
ExpansionRates == { None, Some(1000000) }
EpochDurations == {0, 1, 600}
StakeAmounts == {0, 10}
RewardRates == {0, 1}
CalcRatios == {0, 500000, 1000000}
CalcFees == {0, 3000, 5000, 1000000}
CalcAssets == { << 2000, 10 >>, << 1000, 2000 >> }
\* 1, 10^6, 10^6 + 1, 123456789012345678 and the largest Uint128
CalcAmounts ==
    { << 1 >>, << 0, 0, 1 >>, << 1, 0, 1 >>,
      << 678, 345, 12, 789, 456, 123 >>,
      << 455, 211, 768, 431, 607, 374, 463, 463, 938, 920, 366, 282, 340 >> }

\* ------------------------------------------------------ specifications
PoolCalls ==
    \/ \E a \in Accounts, f \in MintFunds, m \in MinOuts : Pool_mint(a, f, m)
    \/ \E a \in Accounts, t \in {SynthToken, FakeToken},
          n \in RedeemAmounts, m \in {0, 1} : Pool_redeem(a, t, n, m, m)
    \/ \E a \in Accounts : Pool_collect(a)

Next ==
    \/ reply
    \/ \E dt \in Durations, p \in Prices : NewBlock(dt, p)
    \/ PoolCalls
    \/ \E a \in Senders : Pool_refresh_collateral_ratio(a)
    \/ \E a \in Senders, m \in Fees, r \in Fees : Pool_set_fee(a, m, r)
    \/ \E a \in Senders, m \in BOOLEAN, r \in BOOLEAN : Pool_toggle(a, m, r)
    \/ \E a \in Senders, v \in Ratios : Pool_set_min_collateral_ratio(a, v)
    \/ \E a \in Senders : execute_update_oracle(a)
    \/ \E a \in Senders, i \in 0..2, t \in Periods :
           execute_config_share_oracle(a, Pair, i, t)
    \/ \E a \in Senders, i \in 0..2, t \in Periods :
           execute_config_synth_oracle(a, Pair, i, t)
    \/ \E a \in Senders, d \in EpochDurations, c \in CeilPrices,
          x \in ExpansionRates : Epoch_config_epoch(a, d, c, x)
    \/ \E a \in Senders : Epoch_next_epoch(a)
    \/ \E a \in Senders, t \in Senders : execute_transfer_ownership(a, t)
    \/ \E a \in Senders : execute_accept_ownership(a)
    \/ \E x \in CalcAmounts : query_calc_mint(x)
    \/ \E x \in CalcAmounts : query_calc_redeem(x)
    \/ query_pool_info
    \/ Stake_set_position_token
    \/ \E t \in {WantToken, FakeToken}, a \in Accounts,
          to \in {NoAddr} \cup Accounts, n \in StakeAmounts :
           Stake_deposit(t, a, to, n)
    \/ \E t \in {BoostToken, FakeToken}, a \in Accounts,
          to \in {NoAddr} \cup Accounts, n \in StakeAmounts :
           Stake_deposit_boost_token(t, a, to, n)
    \/ \E t \in {PositionToken, FakeToken}, a \in Accounts,
          n \in StakeAmounts : Stake_withdraw(t, a, n)
    \/ \E t \in {PositionToken, FakeToken}, a \in Accounts,
          n \in StakeAmounts : Stake_withdraw_and_harvest(t, a, n)
    \/ \E a \in Accounts, to \in {NoAddr} \cup Accounts : Stake_harvest(a, to)
    \/ \E a \in Senders, r \in RewardRates :
           Stake_set_reward_per_second(a, r)
    \/ \E a \in Senders, x \in {0, 2000000} :
           Stake_set_boost_token(a, BoostToken, x)
    \/ \E a \in Accounts, b \in Accounts, n \in StakeAmounts :
           position_transfer(a, b, n)

Spec == Init /\ [][Next]_vars


\* The pool's accounting: mint, redeem and collect by two accounts.  The
\* owner configures the share oracle (redeem reads its spot price) and
\* then either leaves the collateral ratio at PRECISION or, before any
\* account has acted, lowers it by one refresh, so that mints and
\* redemptions have a share-backed part.
Untouched == user = [a \in Accounts |-> UserInfo_default]

Configured(o) == o.pair_addr # NoAddr

PoolReady ==
    /\ Configured(share_oracle)
    /\ ~Configured(synth_oracle) \/ pool.collateral_ratio < PRECISION

NextPool ==
    \/ reply
    \/ height < PoolMaxHeight /\ NewBlock(600, << 1010000, 1000000 >>)
    \/ PoolReady /\ PoolCalls
    \/ /\ height = 1 /\ ~Configured(share_oracle)
       /\ execute_config_share_oracle(Owner, Pair, 0, 600)
    \/ /\ height = 1 /\ Untouched /\ ~Configured(synth_oracle)
       /\ execute_config_synth_oracle(Owner, Pair, 0, 600)
    \/ /\ Configured(synth_oracle) /\ pool.min_collateral_ratio = PRECISION
       /\ Pool_set_min_collateral_ratio(Owner, 995000)
    \/ /\ pool.min_collateral_ratio < PRECISION /\ ~synth_oracle.twap.is_some
       /\ execute_update_oracle(Owner)
    \/ /\ pool.collateral_ratio = PRECISION
       /\ pool.min_collateral_ratio < PRECISION
       /\ Pool_refresh_collateral_ratio(Owner)

SpecPool == Init /\ [][NextPool]_vars


\* ================================================================ claims
RECURSIVE SumOver(_, _)
SumOver(S, f) ==
    IF S = {} THEN 0
    ELSE LET a == CHOOSE x \in S : TRUE
         IN  user[a][f] + SumOver(S \ {a}, f)

\* C1: after any sequence of successful or failed mint, redeem and collect
\* calls, each of the pool's three unclaimed totals equals the sum of the
\* matching pending balance over all user records.
C1_UnclaimedTotalsAreSums ==
    /\ pool.total_unclaimed_synth = SumOver(Accounts, "synth_balance")
    /\ pool.total_unclaimed_collateral
           = SumOver(Accounts, "collateral_balance")
    /\ pool.total_unclaimed_share = SumOver(Accounts, "share_balance")

\* a collect has just paid one account out while the other still holds
\* pending synth, collateral and share
C1_Witness ==
    /\ last.op = "collect" /\ last.result = "ok" /\ last.msgs # << >>
    /\ pool.total_unclaimed_synth > 0
    /\ pool.total_unclaimed_collateral > 0
    /\ pool.total_unclaimed_share > 0

StoreUnchanged ==
    UNCHANGED << pool, user, synth_oracle, share_oracle, epoch, ownable,
                 synth_supply, circulating, bank >>

\* C2: a collect at height h by a user fails with CollectTooEarly and
\* changes nothing when h <= the user's last_action_block; at any greater
\* height it succeeds and leaves the user's three pending balances zero.
C2_CollectGate ==
    [][\A a \in Accounts :
          (last'.op = "collect" /\ last'.sender = a) =>
              IF height <= user[a].last_action_block
              THEN last'.result = "CollectTooEarly" /\ StoreUnchanged
              ELSE /\ last'.result = "ok"
                   /\ user'[a].synth_balance = 0
                   /\ user'[a].share_balance = 0
                   /\ user'[a].collateral_balance = 0
                   /\ user'[a].last_action_block = user[a].last_action_block
      ]_vars

\* a collect one block after a mint and a redeem has paid out all three
C2_Witness ==
    /\ last.op = "collect" /\ last.result = "ok"
    /\ Len(last.msgs) = 3
    /\ user[last.sender].last_action_block = height - 1
    /\ user[last.sender].synth_balance = 0


\* The collateral ratio: the owner configures the oracles and moves the
\* ratio's lower end, anyone updates the oracles and refreshes.
NextRatio ==
    \/ reply
    \/ \E p \in Prices : NewBlock(600, p)
    \/ execute_config_share_oracle(Owner, Pair, 1, 600)
    \/ \E t \in Periods : execute_config_synth_oracle(Owner, Pair, 0, t)
    \/ \E v \in Ratios : Pool_set_min_collateral_ratio(Owner, v)
    \/ execute_update_oracle("alice")
    \/ Pool_refresh_collateral_ratio("alice")

SpecRatio == Init /\ [][NextRatio]_vars

\* C3: once a refresh has succeeded at time t, a refresh_collateral_ratio
\* call at any time before t + refresh_collateral_ratio_cooldown fails
\* with CollateralRatioRefreshCooldown.
C3_RefreshRateLimited ==
    [][ ( /\ last'.op = "refresh_collateral_ratio"
          /\ refreshed_at >= 0
          /\ now < refreshed_at + pool.refresh_collateral_ratio_cooldown )
        => last'.result = "CollateralRatioRefreshCooldown" ]_vars

\* C4: a refresh_collateral_ratio call made once the cooldown is over, while
\* the synth oracle's last update is older than the last successful
\* refresh, fails with PriceUnavailableOrOutdated.
C4_RefreshNeedsFreshTwap ==
    [][ ( /\ last'.op = "refresh_collateral_ratio"
          /\ refreshed_at >= 0
          /\ now >= refreshed_at + pool.refresh_collateral_ratio_cooldown
          /\ synth_oracle.last_update < refreshed_at )
        => last'.result = "PriceUnavailableOrOutdated" ]_vars

\* C7: in every reachable state
\* min_collateral_ratio <= collateral_ratio <= PRECISION.
C7_RatioWithinBounds ==
    /\ pool.min_collateral_ratio <= pool.collateral_ratio
    /\ pool.collateral_ratio <= PRECISION

\* C9: an update of the configured synth oracle at time now fails with
\* TwapPeriodNotElapsed and leaves the oracle as it was when
\* now < last_update + twap_period, and otherwise succeeds and sets
\* last_update to now; last_update never decreases, and a successful update
\* advances it by at least twap_period.
C9_UpdateTwapGate ==
    [][ /\ ( last'.op = "update_oracle" /\ Configured(synth_oracle) )
           => IF now < synth_oracle.last_update + synth_oracle.twap_period
              THEN /\ last'.sub[2] = "TwapPeriodNotElapsed"
                   /\ synth_oracle' = synth_oracle
              ELSE /\ last'.sub[2] = "ok"
                   /\ synth_oracle'.last_update = now
                   /\ synth_oracle'.last_update
                        >= synth_oracle.last_update + synth_oracle.twap_period
        /\ synth_oracle'.last_update >= synth_oracle.last_update
        /\ share_oracle'.last_update >= share_oracle.last_update ]_vars

\* C10: get_twap fails with PriceUnavailableOrOutdated exactly while the
\* oracle has had no successful update_twap since it was initialized or last
\* configured: the oracles start without an average, a successful config
\* removes it, only a successful update_twap of that oracle supplies one,
\* which stays until the next config, and refresh_collateral_ratio succeeds
\* only when get_twap of the synth oracle does.
TwapStep(o, o2, config_op, k) ==
    /\ get_twap(o).result = IF o.twap.is_some THEN "ok"
                            ELSE "PriceUnavailableOrOutdated"
    /\ (last = NoCall) => ~o.twap.is_some
    /\ (last'.op = config_op /\ last'.result = "ok") => ~o2.twap.is_some
    /\ (last'.op = "update_oracle" /\ last'.sub[k] = "ok"
            /\ last'.result = "ok") => o2.twap.is_some
    /\ (~o.twap.is_some /\ o2.twap.is_some)
           => /\ last'.op = "update_oracle"
              /\ last'.sub[k] = "ok"
    /\ (o.twap.is_some /\ ~o2.twap.is_some)
           => /\ last'.op = config_op
              /\ last'.result = "ok"

C10_TwapAvailability ==
    [][ /\ TwapStep(share_oracle, share_oracle', "config_share_oracle", 1)
        /\ TwapStep(synth_oracle, synth_oracle', "config_synth_oracle", 2)
        /\ (last'.op = "refresh_collateral_ratio" /\ last'.result = "ok")
               => get_twap(synth_oracle).result = "ok" ]_vars

\* a refresh that had succeeded before fails after the synth oracle was
\* configured again
C10_Witness ==
    /\ last.op = "refresh_collateral_ratio"
    /\ last.result = "PriceUnavailableOrOutdated"
    /\ refreshed_at >= 0
    /\ get_twap(share_oracle).result = "ok"


\* The owner's fee setting, with a first mint that pays the fee.
NextFee ==
    \/ reply
    \/ \E a \in Senders, m \in Fees, r \in Fees : Pool_set_fee(a, m, r)
    \/ Untouched /\ \E f \in MintFunds : Pool_mint("alice", f, 0)

SpecFee == Init /\ [][NextFee]_vars

\* C8: in every reachable state minting_fee <= PRECISION and
\* redemption_fee <= PRECISION.
C8_FeesWithinPrecision ==
    /\ pool.minting_fee <= PRECISION
    /\ pool.redemption_fee <= PRECISION

\* The epoch: the owner configures the synth oracle and the epoch, anyone
\* opens the next epoch, accounts mint and collect.
NextEpoch ==
    \/ reply
    \/ height < PoolMaxHeight /\ NewBlock(600, << 1010000, 1000000 >>)
    \/ /\ ~Configured(synth_oracle)
       /\ execute_config_synth_oracle(Owner, Pair, 0, 600)
    \/ /\ height = 1
       /\ \E d \in {0, 600}, r \in ExpansionRates :
              Epoch_config_epoch(Owner, d, Some(PRECISION), r)
    \/ Epoch_next_epoch("bob")
    \/ \E a \in Accounts, f \in MintFunds : Pool_mint(a, f, 0)
    \/ \E a \in Accounts : Pool_collect(a)

SpecEpoch == Init /\ [][NextEpoch]_vars

\* C5: a mint that gets as far as the epoch's cap check fails with
\* MintAmountTooLarge, with the pool configuration and every user record
\* as they were and no message sent, when max_supply is set and the synth
\* token's total supply plus the synth_out the mint would credit exceeds
\* get_allowed_supply(now); with max_supply unset it succeeds.
C5_MintCapChecked ==
    [][ \A a \in Accounts :
          (last'.op = "mint" /\ last'.sender = a) =>
            LET collateral_in == find_amount(last'.args[1],
                                             pool.collateral_denom)
                m == PoolConfig_mint(pool, user[a], height, collateral_in)
                allowed == get_allowed_supply(epoch, now)
                reaches_cap_check ==
                    /\ ~pool.mint_paused
                    /\ collateral_in # 0
                    /\ m.result.ok
                    /\ m.result.synth_out >= last'.args[2]
                    /\ get_token_supply(pool.synth).ok
            IN  reaches_cap_check =>
                  /\ ( /\ epoch.max_supply.is_some
                       /\ allowed.ok
                       /\ synth_supply + m.result.synth_out
                              > allowed.val.val )
                     => /\ last'.result = "MintAmountTooLarge"
                        /\ pool' = pool
                        /\ user' = user
                        /\ last'.msgs = << >>
                  /\ ~epoch.max_supply.is_some
                     => /\ last'.result = "ok"
                        /\ user'[a].synth_balance
                             = user[a].synth_balance + m.result.synth_out
      ]_vars

\* a mint was refused by the cap while its sender holds credit from an
\* earlier mint
C5_Witness ==
    /\ last.op = "mint"
    /\ last.result = "MintAmountTooLarge"
    /\ epoch.max_supply.is_some
    /\ user[last.sender].synth_balance > 0

\* C6: right after a successful mint in an epoch whose max_supply is set,
\* the synth token's total supply plus pool.total_unclaimed_synth is at most
\* get_allowed_supply(now).
C6_MintedWithinAllowedSupply ==
    ( /\ last.op = "mint"
      /\ last.result = "ok"
      /\ epoch.max_supply.is_some )
    => LET allowed == get_allowed_supply(epoch, now)
       IN  /\ allowed.ok
           /\ synth_supply + pool.total_unclaimed_synth <= allowed.val.val

\* whether the oracle's twap_period is over at the current time
PeriodElapsed(o) == now >= o.last_update + o.twap_period

\* the step took o to o2 by one update at the current time
Advanced(o, o2) ==
    /\ o2.twap.is_some
    /\ o2.last_update = now
    /\ o2.price_cumulative_last
           = query_cumulative_prices(o.pair_addr, o.base_index).val
    /\ o2.pair_addr = o.pair_addr
    /\ o2.base_index = o.base_index
    /\ o2.twap_period = o.twap_period

\* C11: with both oracles configured, an update_oracle call at a time when
\* exactly one oracle's twap_period is over succeeds, advances that oracle
\* and leaves the other as it was; when neither period is over it succeeds
\* and leaves both as they were.
C11_UpdateOracleIndependent ==
    [][ ( /\ last'.op = "update_oracle"
          /\ Configured(share_oracle)
          /\ Configured(synth_oracle) )
        => /\ (PeriodElapsed(share_oracle) /\ ~PeriodElapsed(synth_oracle))
              => /\ last'.result = "ok"
                 /\ Advanced(share_oracle, share_oracle')
                 /\ synth_oracle' = synth_oracle
           /\ (~PeriodElapsed(share_oracle) /\ PeriodElapsed(synth_oracle))
              => /\ last'.result = "ok"
                 /\ Advanced(synth_oracle, synth_oracle')
                 /\ share_oracle' = share_oracle
           /\ (~PeriodElapsed(share_oracle) /\ ~PeriodElapsed(synth_oracle))
              => /\ last'.result = "ok"
                 /\ share_oracle' = share_oracle
                 /\ synth_oracle' = synth_oracle ]_vars

\* C12: when update_twap of the share oracle, or of the synth oracle after
\* it, fails with an error other than TwapPeriodNotElapsed, update_oracle
\* returns that error.
C12_OtherErrorsPropagate ==
    [][ last'.op = "update_oracle"
        => LET s == update_twap(share_oracle, now).result
               y == update_twap(synth_oracle, now).result
               swallowed == {"ok", "TwapPeriodNotElapsed"}
           IN  /\ s \notin swallowed => last'.result = s
               /\ (s \in swallowed /\ y \notin swallowed)
                      => last'.result = y ]_vars

\* C13: for a configured oracle with base_index 0 or 1 and a pair of two
\* assets whose base reserve is not zero, get_spot_price succeeds with
\* floor(quote_reserve * PRECISION / base_reserve), the quote asset being
\* the one at index (base_index + 1) mod 2.
SpotPriceAsSpecified(o) ==
    ( /\ Configured(o)
      /\ o.base_index \in {0, 1}
      /\ Len(assets) = 2
      /\ assets[o.base_index + 1] # 0 )
    => get_spot_price(o)
         = [ result |-> "ok",
             val |-> multiply_ratio(assets[((o.base_index + 1) % 2) + 1],
                                    PRECISION, assets[o.base_index + 1]) ]

C13_SpotPrice ==
    /\ SpotPriceAsSpecified(share_oracle)
    /\ SpotPriceAsSpecified(synth_oracle)

\* The epoch's arithmetic: the owner configures the epoch, and
\* get_expansion_rate and next are applied to supplies on every side of the
\* supply tiers and to prices on both sides of the ceiling.
Supplies ==
    { luna(0), luna(1), luna(500000), luna(49999999),
      << 999, 999, 999, 999, 49 >>, luna(50000000), luna(60000000) }
Twaps == { 999999, 1000000, 1000001 }
TokenSupplies == { 0, 1000 }
CumulativePrices == { 0, 5000 }

NextEpochState ==
    \/ reply
    \/ height < PoolMaxHeight /\ NewBlock(600, << 1010000, 1000000 >>)
    \/ /\ ~Configured(synth_oracle)
       /\ execute_config_synth_oracle(Owner, Pair, 0, 600)
    \/ \E c \in CeilPrices, r \in ExpansionRates :
           Epoch_config_epoch(Owner, 600, c, r)
    \/ \E s \in Supplies, t \in Twaps : Epoch_get_expansion_rate(s, t)
    \/ \E s \in TokenSupplies, c \in CumulativePrices : Epoch_apply_next(s, c)

SpecEpochState == Init /\ [][NextEpochState]_vars

\* C14: get_expansion_rate(supply, twap) is None exactly when no ceil_price
\* is configured or twap <= ceil_price, whatever the supply.
C14_ExpansionRateDefined ==
    last.op = "get_expansion_rate"
    => ( ~last.sub[1].is_some
         <=> ( \/ ~epoch.ceil_price.is_some
               \/ last.args[2] <= epoch.ceil_price.val ) )

\* C15: next() on a state whose start_timestamp is 0 returns a twap of 0
\* for every token_supply, price_cumulative and time, changes only
\* start_timestamp and price_cumulative_last, and leaves the allowed supply
\* unset when it was unset.
C15_FirstNextOnlySeeds ==
    ( last.op = "next" /\ epoch.start_timestamp = 0 )
    => /\ last.result = "ok"
       /\ last.sub[1] = 0
       /\ last.sub[2] = [epoch EXCEPT !.start_timestamp = now,
                                      !.price_cumulative_last = last.args[2]]
       /\ last.sub[2].max_supply = epoch.max_supply
       /\ last.sub[2].base_supply = epoch.base_supply
       /\ ~epoch.max_supply.is_some
              => get_allowed_supply(last.sub[2], now)
                     = [ ok |-> TRUE, val |-> None ]

\* next() was applied, with a supply and a cumulative price that are not 0,
\* to an epoch state that has a ceiling but no start yet
C15_Witness ==
    /\ last.op = "next"
    /\ epoch.start_timestamp = 0
    /\ epoch.ceil_price.is_some
    /\ last.args = << 1000, 5000 >>
    /\ height > 1

\* C16: a next_epoch call at a time before start_timestamp + epoch_duration
\* fails with EpochNotElapsed and leaves the epoch state as it was; a
\* next_epoch that succeeds sets start_timestamp to the current time, which
\* is at least epoch_duration after the previous start_timestamp.
C16_EpochGate ==
    [][ last'.op = "update_epoch"
        => IF now < epoch.start_timestamp + epoch.epoch_duration
           THEN /\ last'.result = "EpochNotElapsed"
                /\ epoch' = epoch
           ELSE last'.result = "ok"
                    => /\ epoch'.start_timestamp = now
                       /\ now - epoch.start_timestamp >= epoch.epoch_duration
      ]_vars

\* a second epoch was opened, and a call before its end was refused
C16_Witness ==
    /\ last.op = "update_epoch"
    /\ last.result = "EpochNotElapsed"
    /\ epoch.max_supply.is_some
    /\ epoch.epoch_duration > 0

\* C17: get_allowed_supply(now) is None exactly when max_supply is unset;
\* otherwise it is base_supply + floor((max_supply - base_supply) * elapsed
\* / (epoch_duration / 2)) while elapsed <= epoch_duration / 2 and
\* max_supply afterwards, lies between base_supply and max_supply, and does
\* not decrease at later times.
LaterTimes == { now + 1, now + 150, now + 300, now + 301 }

C17_AllowedSupply ==
    LET a == get_allowed_supply(epoch, now)
        elapsed == now - epoch.start_timestamp
        half == epoch.epoch_duration \div 2
        base == epoch.base_supply
        max == epoch.max_supply.val
    IN  IF ~epoch.max_supply.is_some
        THEN a.ok /\ ~a.val.is_some
        ELSE /\ a.ok
             /\ a.val.is_some
             /\ a.val.val = IF elapsed <= half
                            THEN base + ((max - base) * elapsed) \div half
                            ELSE max
             /\ base <= a.val.val
             /\ a.val.val <= max
             /\ \A t \in LaterTimes :
                    LET b == get_allowed_supply(epoch, t)
                    IN  b.ok /\ b.val.is_some /\ b.val.val >= a.val.val

\* The pause switches: the owner configures the share oracle and toggles
\* the flags, two accounts mint, one of them redeems and collects.
NextPause ==
    \/ reply
    \/ height < PoolMaxHeight /\ NewBlock(600, << 1010000, 1000000 >>)
    \/ /\ height = 1 /\ ~Configured(share_oracle)
       /\ execute_config_share_oracle(Owner, Pair, 0, 600)
    \/ \E m \in BOOLEAN, r \in BOOLEAN : Pool_toggle(Owner, m, r)
    \/ \E a \in Accounts, f \in MintFunds, m \in MinOuts : Pool_mint(a, f, m)
    \/ \E x \in RedeemAmounts : Pool_redeem("alice", SynthToken, x, 0, 0)
    \/ Pool_collect("alice")

SpecPause == Init /\ [][NextPause]_vars

\* C18: once pool.synth (pool.share) holds an address, set_synth_address
\* (set_share_address) fails with SynthAlreadySet (ShareAlreadySet) for
\* every address, and no step changes the stored address.
AddressCandidates == { SynthToken, ShareToken, FakeToken }

C18_AddressesSetOnce ==
    [][ /\ pool.synth # NoAddr
           => /\ pool'.synth = pool.synth
              /\ \A x \in AddressCandidates :
                     set_synth_address(pool, x)
                         = [ result |-> "SynthAlreadySet", pool |-> pool ]
        /\ pool.share # NoAddr
           => /\ pool'.share = pool.share
              /\ \A x \in AddressCandidates :
                     set_share_address(pool, x)
                         = [ result |-> "ShareAlreadySet", pool |-> pool ]
      ]_vars

\* both addresses are set and the pool configuration was written again
C18_Witness ==
    /\ pool.synth = SynthToken
    /\ pool.share = ShareToken
    /\ pool.mint_paused
    /\ pool.total_unclaimed_synth > 0
    /\ last.op = "redeem"

\* C19: while mint_paused every mint fails with MintingPaused and changes
\* nothing; while redeem_paused every redeem fails with RedemptionPaused
\* and changes nothing; a mint is refused as paused only by mint_paused, a
\* redeem only by redeem_paused, a collect by neither; toggle sets each
\* flag to its own argument.
PauseErrors == { "MintingPaused", "RedemptionPaused" }

C19_PauseSwitches ==
    [][ /\ (last'.op = "mint" /\ pool.mint_paused)
           => last'.result = "MintingPaused" /\ StoreUnchanged
        /\ (last'.op = "redeem" /\ pool.redeem_paused)
           => last'.result = "RedemptionPaused" /\ StoreUnchanged
        /\ (last'.op = "mint" /\ ~pool.mint_paused)
           => last'.result \notin PauseErrors
        /\ (last'.op = "redeem" /\ ~pool.redeem_paused)
           => last'.result \notin PauseErrors
        /\ last'.op = "collect" => last'.result \notin PauseErrors
        /\ (last'.op = "toggle" /\ last'.result = "ok")
           => /\ pool'.mint_paused = last'.args[1]
              /\ pool'.redeem_paused = last'.args[2]
      ]_vars

\* a redeem went through while only minting was paused
C19_Witness ==
    /\ last.op = "redeem"
    /\ last.result = "ok"
    /\ pool.mint_paused
    /\ ~pool.redeem_paused

\* C20: a mint that is not paused fails with MintInvalidCollateralAmount
\* when no coin of the attached funds is a positive amount of
\* collateral_denom, and with SlippageReached when calc_mint gives less
\* than min_synth_out; a mint that fails for any reason leaves the pool
\* configuration and the user records as they were.
NoCollateralIn(funds, denom) ==
    \A i \in 1..Len(funds) : funds[i].denom = denom => funds[i].amount = 0

CollateralOf(funds, denom) ==
    LET i == CHOOSE i \in 1..Len(funds) :
                 funds[i].denom = denom /\ funds[i].amount > 0
    IN  funds[i].amount

C20_MintErrors ==
    [][ last'.op = "mint"
        => LET funds == last'.args[1]
               denom == pool.collateral_denom
           IN  /\ (~pool.mint_paused /\ NoCollateralIn(funds, denom))
                  => last'.result = "MintInvalidCollateralAmount"
               /\ ( /\ ~pool.mint_paused
                    /\ ~NoCollateralIn(funds, denom)
                    /\ calc_mint(pool, CollateralOf(funds, denom)).synth_out
                           < last'.args[2] )
                  => last'.result = "SlippageReached"
               /\ last'.result # "ok" => StoreUnchanged
      ]_vars

\* a mint was refused for slippage while its sender holds credit from an
\* earlier mint
C20_Witness ==
    /\ last.op = "mint"
    /\ last.result = "SlippageReached"
    /\ user[last.sender].synth_balance > 0

\* Redemption: the owner configures both oracles and lowers the
\* collateral ratio by one refresh; one account mints, collects and
\* redeems, with the right and a wrong token and with minimum amounts
\* below and above what the redemption gives.
MinCollateralOuts == {0, 598}
MinShareOuts == {0, 299}

NextRedeem ==
    \/ reply
    \/ height < PoolMaxHeight /\ NewBlock(600, << 1010000, 1000000 >>)
    \/ /\ height = 1 /\ ~Configured(share_oracle)
       /\ execute_config_share_oracle(Owner, Pair, 0, 600)
    \/ /\ height = 1 /\ ~Configured(synth_oracle)
       /\ execute_config_synth_oracle(Owner, Pair, 0, 600)
    \/ /\ Configured(synth_oracle) /\ pool.min_collateral_ratio = PRECISION
       /\ Pool_set_min_collateral_ratio(Owner, 995000)
    \/ /\ pool.min_collateral_ratio < PRECISION /\ ~synth_oracle.twap.is_some
       /\ execute_update_oracle(Owner)
    \/ /\ pool.collateral_ratio = PRECISION
       /\ pool.min_collateral_ratio < PRECISION
       /\ Pool_refresh_collateral_ratio(Owner)
    \/ \E f \in MintFunds : Pool_mint("alice", f, 0)
    \/ Pool_collect("alice")
    \/ \E t \in {SynthToken, FakeToken}, x \in RedeemAmounts,
          c \in MinCollateralOuts, s \in MinShareOuts :
           Pool_redeem("alice", t, x, c, s)

SpecRedeem == Init /\ [][NextRedeem]_vars

\* C21: a redeem that is not paused fails with RedeemInvalidSynthInput
\* when the sending token is not pool.synth, with RedeemEmptyAmount when
\* the amount is zero, and with SlippageReached when calc_redeem gives
\* less collateral than min_collateral_out or less share than
\* min_share_out, each time changing nothing; a successful redeem adds
\* collateral_out and share_out to the sender's collateral_balance and
\* share_balance and to the pool's two matching totals, adds fee to
\* total_fee, stamps the sender's last_action_block, leaves synth_balance,
\* total_unclaimed_synth and every other record as they were, and emits
\* no message.
C21_RedeemOutcomes ==
    [][ last'.op = "redeem"
        => LET a == last'.sender
               token == last'.args[1]
               amount == last'.args[2]
               price == get_spot_price(share_oracle)
               r == calc_redeem(pool, amount, price.val)
               open == ~pool.redeem_paused
           IN  /\ (open /\ token # pool.synth)
                  => last'.result = "RedeemInvalidSynthInput"
                     /\ StoreUnchanged
               /\ (open /\ token = pool.synth /\ amount = 0)
                  => last'.result = "RedeemEmptyAmount" /\ StoreUnchanged
               /\ ( /\ open /\ token = pool.synth /\ amount > 0
                    /\ price.result = "ok" /\ r.ok
                    /\ \/ r.collateral_out < last'.args[3]
                       \/ r.share_out < last'.args[4] )
                  => last'.result = "SlippageReached" /\ StoreUnchanged
               /\ last'.result = "ok"
                  => /\ pool' = [pool EXCEPT
                            !.total_unclaimed_collateral
                                = @ + r.collateral_out,
                            !.total_unclaimed_share = @ + r.share_out,
                            !.total_fee = @ + r.fee]
                     /\ user' = [user EXCEPT ![a] = [@ EXCEPT
                            !.collateral_balance = @ + r.collateral_out,
                            !.share_balance = @ + r.share_out,
                            !.last_action_block = height]]
                     /\ last'.msgs = << >>
                     /\ UNCHANGED << synth_oracle, share_oracle, epoch,
                                     ownable, synth_supply, bank >>
      ]_vars

\* a redeem has credited collateral and share to an account that holds
\* pending synth from a mint
C21_Witness ==
    /\ last.op = "redeem" /\ last.result = "ok"
    /\ user[last.sender].collateral_balance > 0
    /\ user[last.sender].share_balance > 0
    /\ user[last.sender].synth_balance > 0
    /\ pool.total_fee > 0

\* The two calculators: a pool whose collateral ratio has been brought to
\* one of CalcRatios, over a pair holding one of CalcAssets; the owner
\* sets the fees and configures the share oracle, and anybody queries
\* calc_mint and calc_redeem.
InitCalc ==
    /\ now = StartTime
    /\ height = 1
    /\ \E r \in CalcRatios :
           pool = [PoolConfig_init(CollateralDenom) EXCEPT
                      !.synth = SynthToken,
                      !.share = ShareToken,
                      !.collateral_ratio = r,
                      !.min_collateral_ratio = r]
    /\ user = [a \in Accounts |-> UserInfo_default]
    /\ synth_oracle = PairOracleState_default
    /\ share_oracle = PairOracleState_default
    /\ epoch = EpochState_default
    /\ ownable = Ownable_initialize(Owner)
    /\ cum = << 0, 0 >>
    /\ assets \in CalcAssets
    /\ synth_supply \in InitialFunds
    /\ circulating = synth_supply
    /\ bank = synth_supply
    /\ replies = << >>
    /\ last = NoCall
    /\ refreshed_at = -1
    /\ stake = Stake_instantiate

NextCalc ==
    \/ \E m \in CalcFees, r \in CalcFees : Pool_set_fee(Owner, m, r)
    \/ /\ ~Configured(share_oracle)
       /\ execute_config_share_oracle(Owner, Pair, 0, 600)
    \/ \E x \in CalcAmounts : query_calc_mint(x)
    \/ \E x \in CalcAmounts : query_calc_redeem(x)

SpecCalc == InitCalc /\ [][NextCalc]_vars

\* q = floor(n / (d1 * d2)), on digit sequences n and q
IsFloor(q, n, d1, d2) ==
    /\ ~BigLess(n, BigMul(BigMul(q, d1), d2))
    /\ BigLess(n, BigMul(BigMul(Trim(BigMulCarry(q, 1, 1)), d1), d2))

\* C22: for every collateral_amount, with collateral_ratio and
\* minting_fee at most PRECISION, calc_mint returns
\* buy_share_value = floor(amount * (PRECISION - ratio) / PRECISION),
\* synth_out = floor(amount * (PRECISION - minting_fee) / PRECISION) and
\* fee = floor(amount * ratio * minting_fee / PRECISION^2); ratio 500000,
\* fee 3000 and amount 1000000 give 500000, 997000 and 1500.
C22_CalcMint ==
    ( /\ last.op = "calc_mint"
      /\ pool.collateral_ratio <= PRECISION
      /\ pool.minting_fee <= PRECISION )
    => LET amount == last.args[1]
       IN  /\ last.result = "ok"
           /\ IsFloor(last.sub[1],
                      BigMul(amount, PRECISION - pool.collateral_ratio),
                      PRECISION, 1)
           /\ IsFloor(last.sub[2],
                      BigMul(amount, PRECISION - pool.minting_fee),
                      PRECISION, 1)
           /\ IsFloor(last.sub[3],
                      BigMul(BigMul(amount, pool.collateral_ratio),
                             pool.minting_fee),
                      PRECISION, PRECISION)
           /\ ( /\ pool.collateral_ratio = 500000
                /\ pool.minting_fee = 3000
                /\ amount = ToBig(1000000) )
              => last.sub = << ToBig(500000), ToBig(997000), ToBig(1500) >>

\* C23: for every synth_amount and share_price > 0, with collateral_ratio
\* and redemption_fee at most PRECISION, calc_redeem returns
\* collateral_out = floor(amount * ratio * (PRECISION - redemption_fee)
\* / PRECISION^2), fee = floor(amount * redemption_fee / PRECISION) and
\* share_out = floor(amount * (PRECISION - redemption_fee)
\* * (PRECISION - ratio) / share_price / PRECISION); fee 5000, ratio
\* 500000, share_price 2000000 and amount 1000000 give 497500, 5000 and
\* 248750.
C23_CalcRedeem ==
    LET price == get_spot_price(share_oracle)
    IN  ( /\ last.op = "calc_redeem"
          /\ price.result = "ok" /\ price.val > 0
          /\ pool.collateral_ratio <= PRECISION
          /\ pool.redemption_fee <= PRECISION )
        => LET amount == last.args[1]
               keep == PRECISION - pool.redemption_fee
           IN  /\ last.result = "ok"
               /\ IsFloor(last.sub[1],
                          BigMul(BigMul(amount, pool.collateral_ratio), keep),
                          PRECISION, PRECISION)
               /\ IsFloor(last.sub[2], BigMul(amount, pool.redemption_fee),
                          PRECISION, 1)
               /\ IsFloor(last.sub[3],
                          BigMul(BigMul(amount, keep),
                                 PRECISION - pool.collateral_ratio),
                          price.val, PRECISION)
               /\ ( /\ pool.collateral_ratio = 500000
                    /\ pool.redemption_fee = 5000
                    /\ price.val = 2000000
                    /\ amount = ToBig(1000000) )
                  => last.sub
                         = << ToBig(497500), ToBig(5000), ToBig(248750) >>

\* C24: a successful mint emits messages exactly when calc_mint's
\* buy_share_value is positive: at collateral_ratio = PRECISION the value
\* is 0 and there is no message; when it is positive there are exactly
\* two, first the router swap funded with buy_share_value of
\* collateral_denom, asking for the share token and paying out to the
\* pool, then the BurnShare call of the pool on itself.
C24_MintMessages ==
    [][ (last'.op = "mint" /\ last'.result = "ok")
        => LET funds == last'.args[1]
               v == calc_mint(pool, CollateralOf(funds, pool.collateral_denom))
                        .buy_share_value
           IN  /\ (last'.msgs # << >>) <=> (v > 0)
               /\ pool.collateral_ratio = PRECISION
                  => v = 0 /\ last'.msgs = << >>
               /\ v > 0
                  => last'.msgs
                       = << [ kind |-> "swap", to |-> "router", amount |-> v,
                              offer |-> pool.collateral_denom,
                              ask |-> pool.share, receiver |-> "self" ],
                            [ kind |-> "burn_share", to |-> "self",
                              amount |-> 0 ] >>
      ]_vars

\* a mint at a collateral ratio below PRECISION has sent a swap and a burn
C24_Witness ==
    /\ last.op = "mint" /\ last.result = "ok"
    /\ pool.collateral_ratio < PRECISION
    /\ Len(last.msgs) = 2
    /\ last.msgs[1].kind = "swap" /\ last.msgs[1].amount > 0

\* Access control: the owner and alice, to whom the ownership can pass,
\* try every owner-gated operation and the two ownership calls, while bob
\* uses the pool and the oracles.
Admins == { Owner, "alice" }

\* the owner settles the configuration in the first block; refusals are
\* tried at any time
MayTry(a) == height = 1 \/ ~is_owner(a)

NextAdmin ==
    \/ reply
    \/ height < 2 /\ NewBlock(600, << 1010000, 1000000 >>)
    \/ \E a \in Admins : MayTry(a) /\ Pool_set_fee(a, 0, 0)
    \/ \E a \in Admins : MayTry(a) /\ Pool_toggle(a, TRUE, FALSE)
    \/ \E a \in Admins :
           MayTry(a) /\ Pool_set_min_collateral_ratio(a, 995000)
    \/ \E a \in Admins :
           MayTry(a) /\ execute_config_share_oracle(a, Pair, 0, 300)
    \/ \E a \in Admins :
           MayTry(a) /\ execute_config_synth_oracle(a, Pair, 0, 600)
    \/ \E a \in Admins :
           MayTry(a) /\ Epoch_config_epoch(a, 600, Some(PRECISION), None)
    \/ \E a \in Admins : execute_transfer_ownership(a, "alice")
    \/ \E a \in Admins : execute_accept_ownership(a)
    \/ Untouched /\ Pool_mint("bob", << Coin(CollateralDenom, 1000) >>, 0)
    \/ Pool_collect("bob")
    \/ Pool_redeem("bob", SynthToken, 600, 0, 0)
    \/ Pool_refresh_collateral_ratio("bob")
    \/ execute_update_oracle("bob")
    \/ Epoch_next_epoch("bob")

SpecAdmin == Init /\ [][NextAdmin]_vars

AdminOps == { "set_fee", "toggle", "set_min_collateral_ratio",
              "config_share_oracle", "config_synth_oracle",
              "set_epoch_config" }

\* what the owner-gated operations set
PoolSettings(p) ==
    << p.minting_fee, p.redemption_fee, p.mint_paused, p.redeem_paused,
       p.min_collateral_ratio >>

OracleSettings(o) == << o.pair_addr, o.base_index, o.twap_period >>

EpochSettings(e) ==
    << e.pair_addr, e.base_index, e.epoch_duration, e.ceil_price,
       e.max_expansion_rate >>

\* C25: set_fee, toggle, set_min_collateral_ratio, config_share_oracle,
\* config_synth_oracle and set_epoch_config, called by an address that is
\* not the stored owner, fail with Unauthorized and change nothing; no
\* other call changes the fees, the pause flags, min_collateral_ratio, an
\* oracle's pair_addr, base_index or twap_period, or the epoch's
\* configuration.
C25_AdminGate ==
    [][ /\ (last'.op \in AdminOps /\ last'.sender # ownable.owner)
           => last'.result = "Unauthorized" /\ StoreUnchanged
        /\ last'.op \notin AdminOps
           => /\ PoolSettings(pool') = PoolSettings(pool)
              /\ OracleSettings(synth_oracle') = OracleSettings(synth_oracle)
              /\ OracleSettings(share_oracle') = OracleSettings(share_oracle)
              /\ EpochSettings(epoch') = EpochSettings(epoch)
      ]_vars

\* the instantiating owner, after handing ownership to alice, is refused
\* a set_fee that alice as owner has used before
C25_Witness ==
    /\ last.op = "set_fee" /\ last.sender = Owner
    /\ last.result = "Unauthorized"
    /\ ownable.owner = "alice"
    /\ pool.minting_fee = 0

\* Ownership: every sender nominates every sender and tries to accept;
\* set_fee shows who the owner is.
NextOwner ==
    \/ reply
    \/ \E a \in Senders, t \in Senders : execute_transfer_ownership(a, t)
    \/ \E a \in Senders : execute_accept_ownership(a)
    \/ \E a \in Senders, f \in {0, 3000} : Pool_set_fee(a, f, f)

SpecOwner == Init /\ [][NextOwner]_vars

\* C26: transfer_ownership by the owner records its argument as
\* pending_owner and leaves owner as it is; accept_ownership by the
\* pending owner makes it owner and clears pending_owner; either call by
\* anybody else fails with Unauthorized and changes nothing.  So
\* pending_owner is only ever written by the owner of that moment and
\* cleared with every change of owner, and owner only ever changes to the
\* pending owner.
C26_TwoPhaseOwnership ==
    [][ /\ last'.op = "transfer_ownership"
           => IF last'.sender = ownable.owner
              THEN /\ last'.result = "ok"
                   /\ ownable' = [ owner |-> ownable.owner,
                                   pending_owner |-> last'.args[1] ]
              ELSE last'.result = "Unauthorized" /\ StoreUnchanged
        /\ last'.op = "accept_ownership"
           => IF last'.sender = ownable.pending_owner
              THEN /\ last'.result = "ok"
                   /\ ownable' = [ owner |-> last'.sender,
                                   pending_owner |-> NoAddr ]
              ELSE last'.result = "Unauthorized" /\ StoreUnchanged
        /\ ownable'.owner # ownable.owner
           => /\ last'.op = "accept_ownership"
              /\ ownable'.owner = ownable.pending_owner
              /\ ownable'.pending_owner = NoAddr
        /\ ( /\ ownable'.pending_owner # ownable.pending_owner
             /\ ownable'.pending_owner # NoAddr )
           => /\ last'.op = "transfer_ownership"
              /\ last'.sender = ownable.owner
              /\ ownable'.owner = ownable.owner
      ]_vars

\* the ownership has passed to bob, who has nominated alice; the
\* instantiating owner is refused an accept_ownership
C26_Witness ==
    /\ ownable = [ owner |-> "bob", pending_owner |-> "alice" ]
    /\ last.op = "accept_ownership" /\ last.sender = Owner
    /\ last.result = "Unauthorized"
    /\ pool.minting_fee = 0

\* Staking: after the position token is set, the accounts deposit want
\* tokens for themselves or for each other, pass position tokens on, and
\* send them back with Withdraw; the owner sets the reward rate.
MaxStake == 20

NextStake ==
    \/ reply
    \/ Stake_set_position_token
    \/ height < PoolMaxHeight /\ NewBlock(600, << 1010000, 1000000 >>)
    \/ \E r \in RewardRates :
           stake.pool.reward_per_second = 0
               /\ Stake_set_reward_per_second(Owner, r)
    \/ \E t \in {WantToken, FakeToken}, a \in Accounts,
          to \in {NoAddr, "bob"}, n \in StakeAmounts :
           /\ stake.pool.total_staked + n <= MaxStake
           /\ Stake_deposit(t, a, to, n)
    \/ \E a \in Accounts, b \in Accounts : position_transfer(a, b, 10)
    \/ \E t \in {PositionToken, FakeToken}, a \in Accounts,
          n \in StakeAmounts : Stake_withdraw(t, a, n)
    \/ Stake_harvest("alice", NoAddr)

SpecStake == Init /\ [][NextStake]_vars

\* C27: an account that sends n > 0 position tokens with Withdraw gets n
\* want tokens back, whether the tokens came from its own deposit or from
\* a transfer: the call succeeds, burns the n position tokens and
\* transfers n want tokens to the sender.
C27_PositionTokensRedeemable ==
    [][ ( /\ last'.op = "withdraw"
          /\ last'.args[1] = stake.pool.position_token
          /\ last'.args[2] > 0 )
        => /\ last'.result = "ok"
           /\ Len(last'.msgs) >= 2
           /\ last'.msgs[1] = [ kind |-> "burn", token |-> PositionToken,
                                to |-> NoAddr, amount |-> last'.args[2] ]
           /\ last'.msgs[2] = [ kind |-> "transfer", token |-> WantToken,
                                to |-> last'.sender,
                                amount |-> last'.args[2] ]
      ]_vars

\* ---- the epoch state after a next() that is not the first ----

NextSupplies == { 0, 1000, 7777 }
NextCumulatives == { 0, 606000000, 1206000000, 1212000000 }

NextEpochNext ==
    \/ reply
    \/ height < PoolMaxHeight /\ NewBlock(600, << 1010000, 1000000 >>)
    \/ /\ ~Configured(synth_oracle)
       /\ execute_config_synth_oracle(Owner, Pair, 0, 600)
    \/ \E c \in CeilPrices, r \in ExpansionRates :
           Epoch_config_epoch(Owner, 600, c, r)
    \/ Epoch_next_epoch("bob")
    \/ \E s \in NextSupplies, c \in NextCumulatives : Epoch_apply_next(s, c)

SpecEpochNext == Init /\ [][NextEpochNext]_vars

\* what a next() that is not the first leaves in the state st, for the
\* state e it started from, the supply it was given and the twap it found
NextSets(e, st, token_supply, twap) ==
    LET r == get_expansion_rate(e, token_supply, twap)
        rate == IF r.is_some THEN r.val ELSE 0
    IN  /\ st.base_supply = token_supply
        /\ st.max_supply.is_some
        /\ IsFloor(ToBig(st.max_supply.val),
                   BigMul(ToBig(token_supply), rate + PRECISION),
                   PRECISION, 1)
        /\ st.max_supply.val >= st.base_supply
        /\ ~r.is_some => st.max_supply.val = st.base_supply

\* C28: a next(token_supply, price_cumulative, now) that is not the first
\* and completes, applied to the stored state or run by update_epoch, sets
\* base_supply = token_supply and
\* max_supply = floor(token_supply * (rate + PRECISION) / PRECISION), rate
\* being get_expansion_rate(token_supply, twap) or 0 when that is None; so
\* max_supply = base_supply when no rate applies, and in every state where
\* max_supply is set, max_supply >= base_supply.
C28_NextSetsSupplies ==
    [][ /\ ( /\ last'.op = "next"
             /\ last'.result = "ok"
             /\ epoch.start_timestamp # 0 )
           => /\ last'.args[1] \in NextSupplies
              /\ NextSets(epoch, last'.sub[2], last'.args[1], last'.sub[1])
        /\ ( /\ last'.op = "update_epoch"
             /\ last'.result = "ok"
             /\ epoch.start_timestamp # 0 )
           => NextSets(epoch, epoch', synth_supply, last'.args[1])
        /\ epoch'.max_supply.is_some
           => epoch'.max_supply.val >= epoch'.base_supply ]_vars

\* a next() that is not the first was given a supply of 7777 while the
\* twap was above the ceiling and no max_expansion_rate was configured, and
\* set max_supply to 7780; and update_epoch has stored an allowed supply
C28_Witness ==
    /\ last.op = "next"
    /\ last.result = "ok"
    /\ epoch.start_timestamp # 0
    /\ epoch.max_supply.is_some
    /\ ~epoch.max_expansion_rate.is_some
    /\ last.args[1] = 7777
    /\ last.sub[1] > epoch.ceil_price.val
    /\ last.sub[2].max_supply = Some(7780)

\* ---- the expansion rate, for every tier and every max_expansion_rate ----

MaxExpansionRates == { None, Some(100), Some(450), Some(1000000) }
ExpansionSupplies ==
    Supplies \cup { luna(499999), luna(750000), luna(1000000),
                    luna(1700000), luna(5000000), luna(7000000),
                    luna(20000000) }

NextExpansion ==
    \/ reply
    \/ \E c \in CeilPrices, r \in MaxExpansionRates :
           Epoch_config_epoch(Owner, 600, c, r)
    \/ \E s \in ExpansionSupplies, t \in Twaps :
           Epoch_get_expansion_rate(s, t)

SpecExpansion == Init /\ [][NextExpansion]_vars

\* the get_expansion_rate in last looked a rate up: a ceiling is configured
\* and the twap is above it
PastCeiling ==
    /\ last.op = "get_expansion_rate"
    /\ epoch.ceil_price.is_some
    /\ last.args[2] > epoch.ceil_price.val

\* the 0-based indices of the breakpoints at or below the supply, and below it
TiersUpTo(digits) ==
    { j \in 0..(Len(SUPPLY_TIERS) - 1) :
          ~BigLess(digits, SUPPLY_TIERS[j + 1]) }
TiersBelow(digits) ==
    { j \in 0..(Len(SUPPLY_TIERS) - 1) :
          BigLess(SUPPLY_TIERS[j + 1], digits) }
Largest(S) == CHOOSE j \in S : \A k \in S : k <= j

\* C29: when get_expansion_rate finds a tier rate r (a ceiling is
\* configured, the twap is above it and the supply is below the last
\* breakpoint), it returns max(r, m) if a max_expansion_rate m is
\* configured, so never less than m, and r if none is.
C29_MaxRateIsFloor ==
    ( PastCeiling /\ last.sub[1].is_some )
    => LET r == EXPANSION_RATES[Largest(TiersUpTo(last.args[1])) + 1]
           m == epoch.max_expansion_rate
       IN  /\ BigLess(last.args[1], SUPPLY_TIERS[Len(SUPPLY_TIERS)])
           /\ IF m.is_some
              THEN /\ last.sub[1].val \in { r, m.val }
                   /\ last.sub[1].val >= r
                   /\ last.sub[1].val >= m.val
              ELSE last.sub[1] = Some(r)

\* a max_expansion_rate of 1000000 is configured, the supply is in the tier
\* whose rate is 400, and get_expansion_rate returned 1000000
C29_Witness ==
    /\ PastCeiling
    /\ epoch.max_expansion_rate = Some(1000000)
    /\ last.args[1] = luna(750000)
    /\ last.sub[1] = Some(1000000)

BandPrices ==
    { << 990000, 1000000 >>, << 1000000, 1000000 >>, << 1010000, 1000000 >> }
MinRatios == { 995000, 1000000 }

NextRefresh ==
    \/ reply
    \/ \E p \in BandPrices : NewBlock(600, p)
    \/ /\ ~Configured(synth_oracle)
       /\ execute_config_synth_oracle(Owner, Pair, 0, 600)
    \/ \E v \in MinRatios : Pool_set_min_collateral_ratio(Owner, v)
    \/ execute_update_oracle("alice")
    \/ Pool_refresh_collateral_ratio("alice")

SpecRefresh == Init /\ [][NextRefresh]_vars

\* the ratio the adjustment is said to give for the twap p
AdjustedRatio(p, twap) ==
    IF twap > PRECISION + p.price_band
    THEN clamp(p.collateral_ratio - p.collateral_ratio_step,
               p.min_collateral_ratio, PRECISION)
    ELSE IF twap < PRECISION - p.price_band
    THEN clamp(p.collateral_ratio + p.collateral_ratio_step,
               p.min_collateral_ratio, PRECISION)
    ELSE p.collateral_ratio

\* C31: a successful refresh_collateral_ratio with synth twap p moves
\* collateral_ratio by at most one collateral_ratio_step: to
\* clamp(old - step, min_collateral_ratio, PRECISION) if
\* p > PRECISION + price_band, to clamp(old + step, min_collateral_ratio,
\* PRECISION) if p < PRECISION - price_band, and not at all when p is within
\* the band; no other field of the pool changes.
C31_RefreshStep ==
    [][ ( last'.op = "refresh_collateral_ratio" /\ last'.result = "ok" )
        => /\ pool'.collateral_ratio
                = AdjustedRatio(pool, get_twap(synth_oracle).twap)
           /\ pool'.collateral_ratio - pool.collateral_ratio
                <= pool.collateral_ratio_step
           /\ pool.collateral_ratio - pool'.collateral_ratio
                <= pool.collateral_ratio_step
           /\ pool' = [pool EXCEPT
                          !.collateral_ratio = pool'.collateral_ratio] ]_vars

NonZero(m) == m.amount # 0

\* C32: a successful collect by a user whose pending balances are (s, h, c)
\* lowers total_unclaimed_synth, total_unclaimed_share and
\* total_unclaimed_collateral by exactly s, h and c, none below zero, leaves
\* total_fee and the user's last_action_block as they were, and emits, in
\* this order and only for the amounts that are not zero: mint s synth to
\* the user, mint h share to the user, send c collateral to the user.
C32_CollectPaysPending ==
    [][ ( last'.op = "collect" /\ last'.result = "ok" )
        => LET a == last'.sender
               s == user[a].synth_balance
               h == user[a].share_balance
               c == user[a].collateral_balance
           IN  /\ pool'.total_unclaimed_synth = pool.total_unclaimed_synth - s
               /\ pool'.total_unclaimed_share = pool.total_unclaimed_share - h
               /\ pool'.total_unclaimed_collateral
                    = pool.total_unclaimed_collateral - c
               /\ pool'.total_unclaimed_synth >= 0
               /\ pool'.total_unclaimed_share >= 0
               /\ pool'.total_unclaimed_collateral >= 0
               /\ pool'.total_fee = pool.total_fee
               /\ user'[a].last_action_block = user[a].last_action_block
               /\ last'.msgs
                    = SelectSeq(<< Msg("mint_synth", a, s),
                                   Msg("mint_share", a, h),
                                   Msg("send_collateral", a, c) >>, NonZero)
       ]_vars

\* a collect has paid out all three kinds: it emitted a synth mint, a share
\* mint and a collateral send, and the pool's totals are still not all zero
C32_Witness ==
    /\ last.op = "collect"
    /\ last.result = "ok"
    /\ Len(last.msgs) = 3
    /\ last.msgs[1].kind = "mint_synth"
    /\ last.msgs[3].kind = "send_collateral"
    /\ pool.total_unclaimed_synth > 0

\* ---- configuration calls, well-formed and malformed ----

TokenIndexes == { 0, 1, 2 }

NextConfig ==
    \/ reply
    \/ height < PoolMaxHeight /\ NewBlock(600, << 1010000, 1000000 >>)
    \/ \E a \in Admins, i \in TokenIndexes :
           execute_config_share_oracle(a, Pair, i, 600)
    \/ \E a \in Admins, i \in TokenIndexes :
           execute_config_synth_oracle(a, Pair, i, 600)
    \/ \E a \in Admins, c \in CeilPrices, r \in ExpansionRates :
           Epoch_config_epoch(a, 600, c, r)
    \/ execute_update_oracle("alice")

SpecConfig == Init /\ [][NextConfig]_vars

\* C33: config_share_oracle and config_synth_oracle (PairOracle.config,
\* Epoch.config_oracle) with a base_index above 1 fail and change nothing,
\* and so does config_epoch with a ceil_price below PRECISION, which the
\* owner is told is an InvalidConfig; hence in every state the base_index
\* of both oracles and of the epoch is 0 or 1 and ceil_price is None or at
\* least PRECISION.
C33_MalformedConfigRejected ==
    [][ /\ ( /\ last'.op \in { "config_share_oracle", "config_synth_oracle" }
             /\ last'.args[2] > 1 )
           => /\ last'.result # "ok"
              /\ is_owner(last'.sender) => last'.result = "Std"
              /\ UNCHANGED store
        /\ ( /\ last'.op = "set_epoch_config"
             /\ last'.args[2].is_some
             /\ last'.args[2].val < PRECISION )
           => /\ last'.result # "ok"
              /\ is_owner(last'.sender) => last'.result = "InvalidConfig"
              /\ UNCHANGED store
        /\ share_oracle'.base_index \in { 0, 1 }
        /\ synth_oracle'.base_index \in { 0, 1 }
        /\ epoch'.base_index \in { 0, 1 }
        /\ epoch'.ceil_price.is_some => epoch'.ceil_price.val >= PRECISION
      ]_vars

\* with both oracles on token 1 and a ceiling of PRECISION in place, the
\* owner has been refused a config_synth_oracle for token 2
C33_Witness ==
    /\ last.op = "config_synth_oracle"
    /\ last.sender = Owner
    /\ last.args[2] = 2
    /\ last.result = "Std"
    /\ share_oracle.base_index = 1
    /\ synth_oracle.base_index = 1
    /\ epoch.base_index = 1
    /\ epoch.ceil_price = Some(PRECISION)

\* what a successful update_twap at time t, the pair's cumulative price
\* being cum_now, makes of the oracle state o
TwapUpdated(o, o2, cum_now, t) ==
    LET diff == cum_now - o.price_cumulative_last
        dt == t - o.last_update
    IN  /\ o2.twap.is_some
        /\ dt > 0
        /\ o2.twap.val * dt <= diff
        /\ diff < (o2.twap.val + 1) * dt
        /\ o2.price_cumulative_last = cum_now
        /\ o2.last_update = t
        /\ o2.pair_addr = o.pair_addr
        /\ o2.base_index = o.base_index
        /\ o2.twap_period = o.twap_period

\* C34: a successful update_twap at time now, the source's cumulative
\* price being cum_now, sets twap = Some(floor((cum_now -
\* price_cumulative_last) / (now - last_update))), both taken before the
\* call, sets price_cumulative_last = cum_now and last_update = now, and
\* leaves pair_addr, base_index and twap_period as they were.
C34_UpdateTwap ==
    [][ ( last'.op = "update_oracle" /\ last'.result = "ok" )
        => /\ last'.sub[1] = "ok"
              => TwapUpdated(share_oracle, share_oracle',
                             cum[share_oracle.base_index + 1], now)
           /\ last'.sub[2] = "ok"
              => TwapUpdated(synth_oracle, synth_oracle',
                             cum[synth_oracle.base_index + 1], now) ]_vars

\* the synth oracle, configured at 1000 with a period of 600, has been
\* updated at 2200 after a block at 990000 and a block at 1010000: its twap
\* is 1000000 over the 1200 seconds
C34_Witness ==
    /\ last.op = "update_oracle"
    /\ last.result = "ok"
    /\ last.sub[2] = "ok"
    /\ now = 2200
    /\ synth_oracle.twap_period = 600
    /\ synth_oracle.last_update = 2200
    /\ synth_oracle.price_cumulative_last = 1200000000
    /\ synth_oracle.twap = Some(1000000)

\* ---- the collateral held against the fees and the pending claims ----

SolvencyRedeems == { 997, 1000 }

NextSolvency ==
    \/ reply
    \/ /\ height < PoolMaxHeight
       /\ NewBlock(600, IF height = 1 THEN << 1010000, 1000000 >>
                                      ELSE << 990000, 1000000 >>)
    \/ /\ height = 1 /\ ~Configured(share_oracle)
       /\ execute_config_share_oracle(Owner, Pair, 0, 600)
    \/ /\ height = 1 /\ Configured(share_oracle) /\ ~Configured(synth_oracle)
       /\ execute_config_synth_oracle(Owner, Pair, 0, 600)
    \/ /\ Configured(synth_oracle) /\ pool.min_collateral_ratio = PRECISION
       /\ height = 1
       /\ Pool_set_min_collateral_ratio(Owner, 995000)
    \/ /\ pool.min_collateral_ratio < PRECISION
       /\ synth_oracle.last_update < now
       /\ execute_update_oracle(Owner)
    \/ /\ pool.min_collateral_ratio < PRECISION
       /\ synth_oracle.last_update = now
       /\ Pool_refresh_collateral_ratio(Owner)
    \/ /\ pool.min_collateral_ratio < PRECISION
       /\ Pool_mint("alice", << Coin(CollateralDenom, 1000) >>, 0)
    \/ \E a \in Accounts : Pool_collect(a)
    \/ \E a \in Accounts, x \in SolvencyRedeems :
           Pool_redeem(a, SynthToken, x, 0, 0)
    \/ query_pool_info

SpecSolvency == Init /\ [][NextSolvency]_vars

\* C35: after any sequence of mint, redeem, collect and
\* refresh_collateral_ratio the collateral the contract holds is at least
\* total_fee + total_unclaimed_collateral, so that the subtraction in
\* get_pool_info never goes below zero.
C35_CollateralSolvent ==
    /\ bank >= pool.total_fee + pool.total_unclaimed_collateral
    /\ last.op = "pool_info" => last.result = "ok"

\* the divisors of update_twap, of a next() that is not the first and of
\* get_allowed_supply, for a call made in the current state
TwapDivisorPositive(o) ==
    ( Configured(o) /\ o.last_update + o.twap_period <= now )
    => now - o.last_update > 0
NextDivisorPositive ==
    ( /\ epoch.start_timestamp # 0
      /\ epoch.start_timestamp + epoch.epoch_duration <= now )
    => now - epoch.start_timestamp > 0
HalfEpochPositive ==
    ( /\ epoch.max_supply.is_some
      /\ now >= epoch.start_timestamp
      /\ now - epoch.start_timestamp <= epoch.epoch_duration \div 2 )
    => epoch.epoch_duration \div 2 > 0

\* C36: whatever configuration the config calls have accepted, in every
\* state an update_twap that passes its period gate divides by
\* now - last_update > 0, a next_epoch that is not the first and passes its
\* gate divides by now - start_timestamp > 0, and get_allowed_supply does
\* not interpolate over a half-epoch of length 0.
C36_NoDivisionByZero ==
    /\ TwapDivisorPositive(share_oracle)
    /\ TwapDivisorPositive(synth_oracle)
    /\ NextDivisorPositive
    /\ HalfEpochPositive

\* C37: a refresh_collateral_ratio that passes the cooldown and staleness
\* guards completes without an arithmetic abort, whatever the pool state
\* and the synth twap, and stores a ratio within
\* [min_collateral_ratio, PRECISION].
C37_RefreshCompletes ==
    [][ ( /\ last'.op = "refresh_collateral_ratio"
          /\ last'.result \notin { "CollateralRatioRefreshCooldown",
                                   "PriceUnavailableOrOutdated" } )
        => /\ last'.result = "ok"
           /\ pool'.min_collateral_ratio <= pool'.collateral_ratio
           /\ pool'.collateral_ratio <= PRECISION ]_vars

\* ---- the staking contract, with a boost token ----

StakeOf == [ a \in Accounts |-> IF a = "alice" THEN 3 ELSE 4 ]
BoostWithdrawals == { 1, 3 }
MaxBoost == 4

\* the stakes, the reward rate and the boost token are set up in the first
\* block; withdrawals and harvests follow
NextBoost ==
    \/ reply
    \/ Stake_set_position_token
    \/ height < PoolMaxHeight /\ NewBlock(600, << 1010000, 1000000 >>)
    \/ /\ height = 1 /\ stake.pool.reward_per_second = 0
       /\ Stake_set_reward_per_second(Owner, 1)
    \/ /\ height = 1 /\ stake.pool.boost_tokens = << >>
       /\ Stake_set_boost_token(Owner, BoostToken, 2000000)
    \/ \E a \in Accounts :
           /\ height = 1 /\ stake.user[a].amount = 0
           /\ Stake_deposit(WantToken, a, NoAddr, StakeOf[a])
    \/ \E t \in {BoostToken, FakeToken}, a \in Accounts :
           /\ height <= 2
           /\ \A i \in 1..Len(stake.user[a].boost_token) :
                  stake.user[a].boost_token[i].amount < MaxBoost
           /\ t = FakeToken => a = "alice" /\ last.op # "deposit_boost_token"
           /\ Stake_deposit_boost_token(t, a, NoAddr, 4)
    \/ \E a \in Accounts, n \in BoostWithdrawals :
           height > 1 /\ Stake_withdraw(PositionToken, a, n)
    \/ \E n \in BoostWithdrawals :
           height > 1 /\ Stake_withdraw_and_harvest(PositionToken, "alice", n)
    \/ height > 1 /\ Stake_harvest("alice", NoAddr)

SpecBoost == Init /\ [][NextBoost]_vars

RECURSIVE SumOf(_, _)
SumOf(f, S) ==
    IF S = {} THEN 0
    ELSE LET a == CHOOSE x \in S : TRUE
         IN  f[a] + SumOf(f, S \ {a})

\* the amount of the boost token addr held in the user record u
BoostHeld(u, addr) ==
    LET k == IndexOf(u.boost_token, addr)
    IN  IF k = 0 THEN 0 ELSE u.boost_token[k].amount

\* C38: in the staking contract, after any sequence of deposit,
\* deposit_boost_token, withdraw, withdraw_and_harvest and harvest calls,
\* pool.total_staked is the sum of amount over the user records, and each
\* boost token's total_staked is the sum of that token's amounts in the
\* user records.
C38_StakedTotalsAreSums ==
    /\ stake.pool.total_staked
         = SumOf([a \in Accounts |-> stake.user[a].amount], Accounts)
    /\ \A i \in 1..Len(stake.pool.boost_tokens) :
           stake.pool.boost_tokens[i].total_staked
             = SumOf([a \in Accounts
                          |-> BoostHeld(stake.user[a],
                                        stake.pool.boost_tokens[i].addr)],
                       Accounts)

\* alice has withdrawn her whole stake and got her 4 boost tokens back,
\* while bob still has his stake and his 4 boost tokens in
C38_Witness ==
    /\ last.op \in { "withdraw", "withdraw_and_harvest" }
    /\ last.sender = "alice"
    /\ last.result = "ok"
    /\ Len(last.msgs) >= 3
    /\ stake.user["alice"].amount = 0
    /\ stake.user["bob"].amount > 0
    /\ BoostHeld(stake.user["bob"], BoostToken) = 4
    /\ stake.pool.total_staked > 0

\* the reward the user record u has accrued and not yet been paid
Owed(p, u) ==
    Accrued(calc_user_weight(p, u), p.acc_reward_per_share) - u.reward_debt

\* C39: in the staking contract, in every reachable state and for every
\* user, floor(user_weight * acc_reward_per_share / 10^6) is at least the
\* user's reward_debt, so that pending_reward is not negative and no
\* harvest or withdraw_and_harvest aborts on a negative reward.
C39_RewardNotNegative ==
    /\ \A a \in Accounts :
           /\ Owed(stake.pool, stake.user[a]) >= 0
           /\ pending_reward(stake.pool, stake.user[a], now).ok
    /\ last.op \in { "harvest", "withdraw_and_harvest" }
           => last.result # "panic"

\* the messages of the sequence s, as a set
MsgSet(s) == { s[i] : i \in 1..Len(s) }

\* what harvest at time t followed by withdraw(amount) at time t does to
\* the pool p and the user record u, and what the two calls pay out to a
HarvestThenWithdraw(p, u, t, amount, a) ==
    LET h == PoolInfo_harvest(p, u, t)
        w == PoolInfo_withdraw(h.pool, h.user, t, amount)
    IN  [ ok |-> h.ok /\ w.ok,
          pool |-> w.pool,
          user |-> w.user,
          paid |-> { Cw20Msg("transfer", p.reward_token, a, h.reward) }
                   \cup MsgSet(transfers(w.send_tokens, a)) ]

\* C40: in the staking contract, withdraw_and_harvest(amount) at time t
\* leaves the pool state and the user's record (amount, reward_debt, boost
\* tokens) as harvest at t followed by withdraw(amount) at t would from
\* the same starting state, and pays out the same want, reward and
\* boost-token amounts, also when the withdrawal empties the stake.
C40_WithdrawAndHarvestIsHarvestThenWithdraw ==
    [][ (last'.op = "withdraw_and_harvest" /\ last'.result = "ok") =>
            LET a == last'.sender
                s == HarvestThenWithdraw(stake.pool, stake.user[a], now,
                                         last'.args[2], a)
            IN  /\ s.ok
                /\ stake'.pool = s.pool
                /\ stake'.user[a] = s.user
                /\ MsgSet(Tail(last'.msgs)) = s.paid ]_vars

====
